---- MODULE Spec2Model ----
(***************************************************************************)
(* Model of the KIMAI MCP server (src/server.py): the API client           *)
(* KimaiClient.request with its error normalisation, the lazily created    *)
(* process-wide client, the tool dispatcher call_tool, and the aggregation *)
(* of get_timesheet_summary.                                               *)
(*                                                                         *)
(* JSON documents are tagged records, texts are sequences of string        *)
(* tokens (concatenation is \o, "contains" is a contiguous run of tokens). *)
(* Hours are kept as the integer number of seconds they were divided from; *)
(* rounded hours are integers counting hundredths of an hour.              *)
(*                                                                         *)
(* A record lists its fields in the order in which their names first occur *)
(* in this module, the order TLC keeps records in, so that a record is     *)
(* never reordered in place while several workers read it.                 *)
(***************************************************************************)
EXTENDS Integers, Sequences, FiniteSets, TLC

(***************************************************************************)
(* Bounds of the model.                                                    *)
(***************************************************************************)
\* longest list of time entries the remote answers with
MaxEntries == 3
\* number of call_tool coroutines that may be in progress at the same time
NumInvocations == 2

\* CHARACTER_LIMIT, src/server.py:27
CHARACTER_LIMIT == 25000

(***************************************************************************)
(* JSON values (what response.json() yields, what str() renders).          *)
(***************************************************************************)
JNull == [t |-> "null"]

JInt(n) == [t |-> "int", n |-> n]

JStr(s) == [t |-> "str", s |-> s]

JBool(b) == [t |-> "bool", b |-> b]

\* an object: its keys in insertion order and the value of each key
JObj(keys, vals) == [t |-> "obj", k |-> keys, v |-> vals]

JArr(items) == [t |-> "arr", a |-> items]

Range(s) == {s[i] : i \in 1..Len(s)}

\* dict.get(key, default)
Get(o, key, default) == IF key \in Range(o.k) THEN o.v[key] ELSE default

\* the text of a JSON document as the remote serialises it
RECURSIVE JsonText(_)
JsonText(v) ==
    CASE v.t = "null" -> <<"null">>
      [] v.t = "int"  -> <<ToString(v.n)>>
      [] v.t = "bool" -> IF v.b THEN <<"true">> ELSE <<"false">>
      [] v.t = "str"  -> <<"\"", v.s, "\"">>
      [] v.t = "arr"  ->
            LET RECURSIVE Items(_)
                Items(i) == IF i > Len(v.a) THEN <<>>
                            ELSE (IF i > 1 THEN <<",">> ELSE <<>>)
                                 \o JsonText(v.a[i]) \o Items(i + 1)
            IN <<"[">> \o Items(1) \o <<"]">>
      [] v.t = "obj"  ->
            LET RECURSIVE Fields(_)
                Fields(i) == IF i > Len(v.k) THEN <<>>
                             ELSE (IF i > 1 THEN <<",">> ELSE <<>>)
                                  \o <<"\"", v.k[i], "\"", ":">>
                                  \o JsonText(v.v[v.k[i]]) \o Fields(i + 1)
            IN <<"{">> \o Fields(1) \o <<"}">>

\* str(value) of Python for a parsed JSON document (repr of dict/list items)
RECURSIVE PyRepr(_)
PyRepr(v) ==
    CASE v.t = "null" -> <<"None">>
      [] v.t = "int"  -> <<ToString(v.n)>>
      [] v.t = "bool" -> IF v.b THEN <<"True">> ELSE <<"False">>
      [] v.t = "str"  -> <<"'", v.s, "'">>
      [] v.t = "arr"  ->
            LET RECURSIVE PyItems(_)
                PyItems(i) == IF i > Len(v.a) THEN <<>>
                            ELSE (IF i > 1 THEN <<", ">> ELSE <<>>)
                                 \o PyRepr(v.a[i]) \o PyItems(i + 1)
            IN <<"[">> \o PyItems(1) \o <<"]">>
      [] v.t = "obj"  ->
            LET RECURSIVE PyFields(_)
                PyFields(i) == IF i > Len(v.k) THEN <<>>
                             ELSE (IF i > 1 THEN <<", ">> ELSE <<>>)
                                  \o <<"'", v.k[i], "'", ": ">>
                                  \o PyRepr(v.v[v.k[i]]) \o PyFields(i + 1)
            IN <<"{">> \o PyFields(1) \o <<"}">>

\* str(value): a string is itself, everything else is its repr
PyStr(v) == IF v.t = "str" THEN <<v.s>> ELSE PyRepr(v)

\* text `sub` occurs in text `txt`
Contains(txt, sub) ==
    \E i \in 0..(Len(txt) - Len(sub)) :
        \A j \in 1..Len(sub) : txt[i + j] = sub[j]

EndsWith(txt, sub) ==
    /\ Len(sub) <= Len(txt)
    /\ \A j \in 1..Len(sub) : txt[Len(txt) - Len(sub) + j] = sub[j]

StartsWith(txt, sub) ==
    /\ Len(sub) <= Len(txt)
    /\ \A j \in 1..Len(sub) : txt[j] = sub[j]

\* the characters of a text.  A token is the string it shows, except the tokens
\* that stand for characters outside ASCII: "<check>" and "<cross>" are one
\* character each, "<timer>" is two (a stopwatch and a variation selector)
\* and "<stopwatch>" is the first of the two.
CharLen(token) ==
    CASE token \in {"<check>", "<cross>", "<stopwatch>"} -> 1
      [] token = "<timer>" -> 2
      [] OTHER -> Len(token)

\* len(text), summed half by half
RECURSIVE Chars(_)
Chars(txt) ==
    IF txt = <<>> THEN 0
    ELSE IF Len(txt) = 1 THEN CharLen(txt[1])
    ELSE LET half == Len(txt) \div 2
         IN Chars(SubSeq(txt, 1, half)) + Chars(SubSeq(txt, half + 1, Len(txt)))

\* the first n characters of a token that is longer than n
TakeToken(token, n) ==
    IF token = "<timer>" THEN "<stopwatch>" ELSE SubSeq(token, 1, n)

\* text[:n] for n >= 0: the tokens that fit, and the fitting part of the next one
Take(txt, n) ==
    LET fit == {k \in 0..Len(txt) : Chars(SubSeq(txt, 1, k)) <= n}
        whole == CHOOSE k \in fit : \A other \in fit : other <= k
        left == n - Chars(SubSeq(txt, 1, whole))
    IN SubSeq(txt, 1, whole)
       \o (IF whole < Len(txt) /\ left > 0
           THEN <<TakeToken(txt[whole + 1], left)>> ELSE <<>>)

\* the marker truncate_if_needed appends
TruncationMarker(limit) ==
    <<"\n", "\n", "... [Output truncated at ", ToString(limit), " characters]">>

\* truncate_if_needed cutting at the limit itself
TruncateAtLimit(txt, limit) ==
    IF Chars(txt) <= limit THEN txt
    ELSE Take(txt, limit) \o TruncationMarker(limit)

\* truncate_if_needed, src/server.py:670-676
TruncateIfNeeded(txt, limit) ==
    IF Chars(txt) <= limit THEN txt
    ELSE Take(txt, limit - 50) \o TruncationMarker(limit)

(***************************************************************************)
(* Python exceptions and values: an evaluation either yields a value       *)
(* ([ok |-> TRUE, ...]) or raises ([ok |-> FALSE, exc |-> class, ...]).    *)
(***************************************************************************)
Raise(cls, msg) == [msg |-> msg, ok |-> FALSE, exc |-> cls]

\* a text that was produced
Text(text) == [ok |-> TRUE, text |-> text]

\* bool(value)
Truthy(v) ==
    CASE v.t = "null" -> FALSE
      [] v.t = "bool" -> v.b
      [] v.t = "int"  -> v.n # 0
      [] v.t = "str"  -> v.s # ""
      [] v.t = "arr"  -> Len(v.a) > 0
      [] v.t = "obj"  -> Len(v.k) > 0

\* what `for t in value` iterates over (a dict iterates over its keys)
Iterable(v) == v.t \in {"arr", "obj", "str"}

Iterate(v) ==
    CASE v.t = "arr" -> v.a
      [] v.t = "obj" -> [i \in 1..Len(v.k) |-> JStr(v.k[i])]
      [] v.t = "str" -> IF v.s = "" THEN <<>> ELSE <<JStr(v.s)>>

(***************************************************************************)
(* get_timesheet_summary: the aggregation, src/server.py:1475-1498.        *)
(***************************************************************************)
\* ts.get("duration"), None when the entry has no duration
DurationOfNoDefault(ts) == Get(ts, "duration", JNull)

\* ts.get("duration", 0)
DurationOf(ts) == Get(ts, "duration", JInt(0))

\* SumDuration without the `if t.get("billable")` filter
RECURSIVE SumDurationUnfiltered(_, _)
SumDurationUnfiltered(items, onlyBillable) ==
    IF items = <<>> THEN 0
    ELSE DurationOf(Head(items)).n + SumDurationUnfiltered(Tail(items), onlyBillable)

\* sum(t.get("duration", 0) for t in timesheets [if t.get("billable")])
RECURSIVE SumDuration(_, _)
SumDuration(items, onlyBillable) ==
    IF items = <<>> THEN 0
    ELSE LET t == Head(items)
             counted == (~onlyBillable) \/ Truthy(Get(t, "billable", JNull))
         IN (IF counted THEN DurationOf(t).n ELSE 0)
            + SumDuration(Tail(items), onlyBillable)

\* index of `key` in the mapping (a sequence of groups in insertion order), 0 if absent
KeyIndex(mapping, key) ==
    IF \E i \in 1..Len(mapping) : mapping[i].key = key
    THEN CHOOSE i \in 1..Len(mapping) : mapping[i].key = key
    ELSE 0

\* AddToGroup with `=` in place of `+=` on the duration
AddToGroupAssigning(mapping, key, ts) ==
    LET created == IF KeyIndex(mapping, key) = 0
                   THEN Append(mapping, [key |-> key, duration |-> 0, count |-> 0])
                   ELSE mapping
        i == KeyIndex(created, key)
    IN [created EXCEPT ![i].duration = DurationOf(ts).n,
                       ![i].count = @ + 1]

\* one turn of the grouping loop: look the key up or create it, then accumulate
AddToGroup(mapping, key, ts) ==
    LET created == IF KeyIndex(mapping, key) = 0
                   THEN Append(mapping, [key |-> key, duration |-> 0, count |-> 0])
                   ELSE mapping
        i == KeyIndex(created, key)
    IN [created EXCEPT ![i].duration = @ + DurationOf(ts).n,
                       ![i].count = @ + 1]

\* GroupKey with a default of its own for an absent field
GroupKeyMarkingAbsent(ts, field) == Get(ts, field, JStr("absent"))

\* the key of an entry: ts.get("project") / ts.get("activity"), None when absent
GroupKey(ts, field) == Get(ts, field, JNull)

\* the loop `for ts in timesheets: ...` over by_project / by_activity
RECURSIVE GroupBy(_, _, _)
GroupBy(items, field, mapping) ==
    IF items = <<>> THEN mapping
    ELSE GroupBy(Tail(items), field,
                 AddToGroup(mapping, GroupKey(Head(items), field), Head(items)))

\* non-billable time summed on its own, over the entries whose billable is False
RECURSIVE NonBillableSummed(_, _, _)
NonBillableSummed(items, total, billable) ==
    IF items = <<>> THEN 0
    ELSE (IF Get(Head(items), "billable", JNull) = JBool(FALSE)
          THEN DurationOf(Head(items)).n ELSE 0)
         + NonBillableSummed(Tail(items), total, billable)

\* non_billable_hours = total_hours - billable_hours, src/server.py:1480
NonBillable(items, total, billable) == total - billable

\* the entry can be aggregated: it is a dict and its duration is a number
Aggregable(t) == t.t = "obj" /\ DurationOf(t).t = "int"

\* the local variables of the aggregation, or the exception it raises
Aggregate(timesheets) ==
    IF ~Iterable(timesheets) THEN Raise("TypeError", <<"object is not iterable">>)
    ELSE LET items == Iterate(timesheets) IN
         IF \E i \in 1..Len(items) : items[i].t # "obj"
         THEN Raise("AttributeError", <<"object has no attribute 'get'">>)
         ELSE IF \E i \in 1..Len(items) : ~Aggregable(items[i])
         THEN Raise("TypeError", <<"unsupported operand type(s) for +">>)
         ELSE LET total == SumDuration(items, FALSE)
                  billable == SumDuration(items, TRUE)
              IN [ok |-> TRUE,
                  entries |-> Len(items),
                  total_duration |-> total,
                  billable_duration |-> billable,
                  non_billable_duration |-> NonBillable(items, total, billable),
                  by_project |-> GroupBy(items, "project", <<>>),
                  by_activity |-> GroupBy(items, "activity", <<>>)]

(***************************************************************************)
(* get_timesheet_summary: rendering, src/server.py:1500-1541.              *)
(* Durations are multiples of 12 seconds throughout (see Durations), so    *)
(* seconds / 36 is never halfway between two hundredths and rounding the   *)
(* binary float gives the same digits as rounding the exact quotient.      *)
(***************************************************************************)
\* round(seconds / 3600, 2) and f"{seconds / 3600:.2f}", in hundredths of an hour
Round2(seconds) == (seconds + 18) \div 36

\* a / b, raising on a zero divisor; the quotient rounded to the nearest integer
Divide(a, b) ==
    IF b = 0 THEN Raise("ZeroDivisionError", <<"float division by zero">>)
    ELSE [v |-> (2 * a + b) \div (2 * b), ok |-> TRUE]

\* PercentOf without the guard on a zero total
PercentOfUnguarded(part, total) == Divide(part * 1000, total)

\* (part_hours / total_hours * 100) if total_hours > 0 else 0, in tenths of a percent
PercentOf(part, total) ==
    IF total > 0 THEN Divide(part * 1000, total) ELSE [v |-> 0, ok |-> TRUE]

\* repr of a float that was rounded to 2 places: 3.5, 1.0, 0.01
FloatRepr(h) ==
    <<ToString(h \div 100), ".">>
    \o (IF h % 10 = 0 THEN <<ToString((h % 100) \div 10)>>
        ELSE <<ToString((h % 100) \div 10), ToString(h % 10)>>)

\* f"{x:.2f}"
Fixed2(h) == <<ToString(h \div 100), ".", ToString((h % 100) \div 10), ToString(h % 10)>>

\* f"{x:.1f}"
Fixed1(p) == <<ToString(p \div 10), ".", ToString(p % 10)>>

\* InsertDesc putting a group before the groups of equal duration
RECURSIVE InsertDescTiesFirst(_, _)
InsertDescTiesFirst(sorted, g) ==
    IF sorted = <<>> THEN <<g>>
    ELSE IF Head(sorted).duration > g.duration
         THEN <<Head(sorted)>> \o InsertDescTiesFirst(Tail(sorted), g)
         ELSE <<g>> \o sorted

\* sorted(mapping.items(), key=duration, reverse=True): stable, descending
RECURSIVE InsertDesc(_, _)
InsertDesc(sorted, g) ==
    IF sorted = <<>> THEN <<g>>
    ELSE IF Head(sorted).duration >= g.duration
         THEN <<Head(sorted)>> \o InsertDesc(Tail(sorted), g)
         ELSE <<g>> \o sorted

RECURSIVE SortedDesc(_)
SortedDesc(mapping) ==
    IF mapping = <<>> THEN <<>>
    ELSE InsertDesc(SortedDesc(SubSeq(mapping, 1, Len(mapping) - 1)),
                    mapping[Len(mapping)])

\* {str(k): {"hours": round(v["duration"] / 3600, 2), "count": v["count"]} for k, v in ...}
RECURSIVE StrKeyed(_, _)
StrKeyed(mapping, out) ==
    IF mapping = <<>> THEN out
    ELSE LET g == Head(mapping)
             item == [key |-> PyStr(g.key), count |-> g.count,
                      hours |-> Round2(g.duration)]
             i == KeyIndex(out, item.key)
         IN StrKeyed(Tail(mapping),
                     IF i = 0 THEN Append(out, item) ELSE [out EXCEPT ![i] = item])

\* the lines "- Project #{id}: {hours:.2f} hours ({count} entries)"
RECURSIVE GroupLines(_, _)
GroupLines(label, groups) ==
    IF groups = <<>> THEN <<>>
    ELSE <<"\n", "- ", label, " #">> \o PyStr(Head(groups).key) \o <<": ">>
         \o Fixed2(Round2(Head(groups).duration))
         \o <<" hours (", ToString(Head(groups).count), " entries)">>
         \o GroupLines(label, Tail(groups))

\* str() of the by_project / by_activity part of the JSON summary
RECURSIVE GroupRepr(_, _)
GroupRepr(groups, first) ==
    IF groups = <<>> THEN <<>>
    ELSE (IF first THEN <<>> ELSE <<", ">>)
         \o <<"'">> \o Head(groups).key \o <<"'", ": ", "{'hours': ">>
         \o FloatRepr(Head(groups).hours)
         \o <<", 'count': ", ToString(Head(groups).count), "}">>
         \o GroupRepr(Tail(groups), FALSE)

\* the markdown report, src/server.py:1500-1524
MarkdownSummary(agg) ==
    LET bp == PercentOf(agg.billable_duration, agg.total_duration)
        np == PercentOf(agg.non_billable_duration, agg.total_duration)
    IN IF ~bp.ok THEN bp
       ELSE IF ~np.ok THEN np
       ELSE LET projects == SortedDesc(agg.by_project)
                activities == SortedDesc(agg.by_activity)
            IN [ok |-> TRUE,
                text |->
                    <<"# Timesheet Summary Report", "\n", "\n", "## Overview", "\n",
                      "**Total Entries:** ", ToString(agg.entries), "\n",
                      "**Total Time:** ">> \o Fixed2(Round2(agg.total_duration))
                    \o <<" hours", "\n", "**Billable Time:** ">>
                    \o Fixed2(Round2(agg.billable_duration))
                    \o <<" hours (">> \o Fixed1(bp.v) \o <<"%)", "\n",
                         "**Non-Billable Time:** ">>
                    \o Fixed2(Round2(agg.non_billable_duration))
                    \o <<" hours (">> \o Fixed1(np.v) \o <<"%)", "\n", "\n",
                         "## By Project">>
                    \o GroupLines("Project", projects)
                    \o <<"\n", "\n", "## By Activity">>
                    \o GroupLines("Activity", activities),
                by_project |-> projects,
                by_activity |-> activities,
                format |-> "markdown",
                total_entries |-> agg.entries,
                total_hours |-> Round2(agg.total_duration),
                billable_hours |-> Round2(agg.billable_duration),
                non_billable_hours |-> Round2(agg.non_billable_duration),
                billable_percent |-> bp.v,
                non_billable_percent |-> np.v]

\* the JSON summary, src/server.py:1526-1541
JsonSummary(agg) ==
    LET projects == StrKeyed(agg.by_project, <<>>)
        activities == StrKeyed(agg.by_activity, <<>>)
    IN [ok |-> TRUE,
        text |->
            <<"{'total_entries': ", ToString(agg.entries), ", 'total_hours': ">>
            \o FloatRepr(Round2(agg.total_duration))
            \o <<", 'billable_hours': ">> \o FloatRepr(Round2(agg.billable_duration))
            \o <<", 'non_billable_hours': ">>
            \o FloatRepr(Round2(agg.non_billable_duration))
            \o <<", 'by_project': {">> \o GroupRepr(projects, TRUE)
            \o <<"}, 'by_activity': {">> \o GroupRepr(activities, TRUE) \o <<"}}">>,
        by_project |-> projects,
        by_activity |-> activities,
        format |-> "json",
        total_entries |-> agg.entries,
        total_hours |-> Round2(agg.total_duration),
        billable_hours |-> Round2(agg.billable_duration),
        non_billable_hours |-> Round2(agg.non_billable_duration)]

\* what the summary branch does with the fetched value, src/server.py:1475-1541
Summarize(timesheets, format) ==
    LET agg == Aggregate(timesheets)
    IN IF ~agg.ok THEN agg
       ELSE IF format = "markdown" THEN MarkdownSummary(agg) ELSE JsonSummary(agg)

(***************************************************************************)
(* The API client, src/server.py:593-663.                                  *)
(* A URL is a sequence of tokens: the origin (scheme and host) followed by *)
(* path pieces; a piece "/" is a single slash character.                   *)
(***************************************************************************)
\* str.rstrip('/')
RECURSIVE RStrip(_)
RStrip(url) ==
    IF url # <<>> /\ url[Len(url)] = "/"
    THEN RStrip(SubSeq(url, 1, Len(url) - 1))
    ELSE url

\* os.environ.get(name, default)
EnvGet(environ, name, default) ==
    IF name \in DOMAIN environ THEN environ[name] ELSE default

\* KimaiClient.__init__ keeping the base URL as configured
KimaiClientKeepingSlash(config) ==
    [base_url |-> config.base_url,
     headers |-> [Authorization |-> <<"Bearer ">> \o config.api_token,
                  Accept |-> <<"application/json">>,
                  ContentType |-> <<"application/json">>]]

\* KimaiClient.__init__
KimaiClient(config) ==
    [base_url |-> RStrip(config.base_url),
     headers |-> [Authorization |-> <<"Bearer ">> \o config.api_token,
                  Accept |-> <<"application/json">>,
                  ContentType |-> <<"application/json">>]]

\* the client get_client() constructs when none exists yet
NewClient(environ) ==
    KimaiClient([base_url |-> EnvGet(environ, "KIMAI_BASE_URL", <<"http://localhost:8001">>),
                 api_token |-> EnvGet(environ, "KIMAI_API_TOKEN", <<>>)])

\* urljoin(base, "/api/" + endpoint): an absolute path replaces the path of the base
UrlJoin(base, endpoint) ==
    (IF base = <<>> THEN <<>> ELSE <<base[1]>>) \o <<"/api/">> \o endpoint

\* the request an invocation of KimaiClient.request puts on the wire
HttpRequest(self, method, endpoint, params, json_data) ==
    [url |-> UrlJoin(self.base_url, endpoint),
     headers |-> self.headers,
     method |-> method,
     params |-> params,
     json |-> json_data]

(***************************************************************************)
(* What comes back: a response (status and body) or a transport error.     *)
(* A body is empty, a text that is not JSON, or the text of a JSON value.  *)
(***************************************************************************)
EmptyBody == [kind |-> "empty"]

TextBody(text) == [text |-> text, kind |-> "text"]

JsonBody(value) == [kind |-> "json", value |-> value]

HttpResponse(status, body) == [status |-> status, body |-> body, type |-> "response"]

TransportError(cls, desc) == [cls |-> cls, type |-> "error", desc |-> desc]

\* response.text
ResponseText(body) ==
    CASE body.kind = "empty" -> <<>>
      [] body.kind = "text"  -> body.text
      [] body.kind = "json"  -> JsonText(body.value)

\* response.json()
ResponseJson(body) ==
    IF body.kind = "json" THEN [ok |-> TRUE, value |-> body.value]
    ELSE Raise("JSONDecodeError", <<"Expecting value: line 1 column 1 (char 0)">>)

\* response.raise_for_status() raises unless the status is 2xx
IsSuccess(status) == status >= 200 /\ status <= 299

\* {"success": True}
SuccessMarker == JObj(<<"success">>, [success |-> JBool(TRUE)])

\* ErrorDetail rendering every parsed document that has no `message` with str()
ErrorDetailAlwaysStr(body) ==
    LET error_data == ResponseJson(body)
    IN IF error_data.ok
       THEN (IF error_data.value.t = "obj" /\ "message" \in Range(error_data.value.k)
             THEN PyStr(error_data.value.v["message"])
             ELSE PyRepr(error_data.value))
       ELSE ResponseText(body)

\* the handler of httpx.HTTPStatusError, src/server.py:646-652
ErrorDetail(body) ==
    LET error_data == ResponseJson(body)
    IN IF error_data.ok /\ error_data.value.t = "obj"
       THEN (IF "message" \in Range(error_data.value.k)
             THEN PyStr(error_data.value.v["message"])
             ELSE PyRepr(error_data.value))
       ELSE ResponseText(body)

\* StatusErrorMessage without the status code
StatusErrorMessageNoCode(status, body) ==
    <<"KIMAI API error: ">> \o ErrorDetail(body)
    \o <<". ", "Please check your request parameters and try again.">>

\* the message of the exception raised for a non-2xx status, src/server.py:654-657
StatusErrorMessage(status, body) ==
    <<"KIMAI API error (", ToString(status), "): ">> \o ErrorDetail(body)
    \o <<". ", "Please check your request parameters and try again.">>

\* the message of the exception raised for a transport error, src/server.py:660-663
NetworkErrorMessage(self, desc) ==
    <<"Network error connecting to KIMAI: ">> \o desc
    \o <<". ", "Please verify the KIMAI instance URL (">> \o self.base_url
    \o <<") is correct and accessible.">>

\* SuccessResult testing the status only, not the content
SuccessResultStatusOnly(status, body) ==
    IF status = 204
    THEN [ok |-> TRUE, value |-> SuccessMarker, parsed |-> FALSE]
    ELSE LET data == ResponseJson(body)
         IN IF data.ok THEN [ok |-> TRUE, value |-> data.value, parsed |-> TRUE]
            ELSE [msg |-> data.msg, ok |-> FALSE, exc |-> data.exc, parsed |-> TRUE]

\* the success path: 204 or no content gives the marker, otherwise the body is parsed
SuccessResult(status, body) ==
    IF status = 204 \/ body.kind = "empty"
    THEN [ok |-> TRUE, value |-> SuccessMarker, parsed |-> FALSE]
    ELSE LET data == ResponseJson(body)
         IN IF data.ok THEN [ok |-> TRUE, value |-> data.value, parsed |-> TRUE]
            ELSE [msg |-> data.msg, ok |-> FALSE, exc |-> data.exc, parsed |-> TRUE]

\* KimaiClient.request from the point where the round trip ends, src/server.py:638-663:
\* the value it returns or the exception it raises; `parsed` tells whether the
\* success path called response.json()
Request(self, reply) ==
    IF reply.type = "error"
    THEN [msg |-> NetworkErrorMessage(self, reply.desc), ok |-> FALSE,
          exc |-> "Exception", parsed |-> FALSE]
    ELSE IF ~IsSuccess(reply.status)
    THEN [msg |-> StatusErrorMessage(reply.status, reply.body), ok |-> FALSE,
          exc |-> "Exception", parsed |-> FALSE]
    ELSE SuccessResult(reply.status, reply.body)

(***************************************************************************)
(* Input validation: the pydantic models, src/server.py:104-117, 145-153,  *)
(* 217-225, 554-586.  Arguments are a JSON object (or not a mapping).      *)
(***************************************************************************)
KnownTools ==
    {"list_timesheets", "get_timesheet", "stop_timesheet", "delete_timesheet",
     "list_projects", "get_project", "list_activities", "get_activity",
     "list_customers", "get_customer", "get_timesheet_summary",
     "update_timesheet", "update_project", "update_activity", "update_customer"}

\* the tools that list a collection, and the tools that get one item of it
ListTools == {"list_timesheets", "list_projects", "list_activities", "list_customers"}

GetTools == {"get_timesheet", "get_project", "get_activity", "get_customer"}

\* the fields of the input model of a tool, in declaration order
ModelFields(name) ==
    CASE name = "list_timesheets" ->
            <<"user", "customer", "project", "activity", "page", "size",
              "active", "exported", "begin", "end", "format">>
      [] name \in GetTools            -> <<"id", "format">>
      [] name = "stop_timesheet"        -> <<"id">>
      [] name = "delete_timesheet"      -> <<"id">>
      [] name = "list_projects"   -> <<"customer", "visible", "page", "size", "format">>
      [] name = "list_activities" ->
            <<"project", "visible", "term", "page", "size", "format">>
      [] name = "list_customers"  -> <<"visible", "page", "size", "format">>
      [] name = "get_timesheet_summary" ->
            <<"user", "customer", "project", "activity", "begin", "end", "format">>
      [] name = "update_timesheet" -> <<"id", "begin", "end", "description", "tags">>
      [] name \in {"update_project", "update_activity"} ->
            <<"id", "name", "visible", "billable", "color">>
      [] name = "update_customer" ->
            <<"id", "name", "currency", "visible", "billable", "color">>

ModelName(name) ==
    CASE name = "list_timesheets"       -> "ListTimesheetsInput"
      [] name = "get_timesheet"         -> "GetTimesheetInput"
      [] name = "stop_timesheet"        -> "StopTimesheetInput"
      [] name = "delete_timesheet"      -> "DeleteTimesheetInput"
      [] name = "list_projects"         -> "ListProjectsInput"
      [] name = "get_project"           -> "GetProjectInput"
      [] name = "list_activities"       -> "ListActivitiesInput"
      [] name = "get_activity"          -> "GetActivityInput"
      [] name = "list_customers"        -> "ListCustomersInput"
      [] name = "get_customer"          -> "GetCustomerInput"
      [] name = "get_timesheet_summary" -> "GetTimesheetSummaryInput"
      [] name = "update_timesheet"      -> "UpdateTimesheetInput"
      [] name = "update_project"        -> "UpdateProjectInput"
      [] name = "update_activity"       -> "UpdateActivityInput"
      [] name = "update_customer"       -> "UpdateCustomerInput"

\* DEFAULT_PAGE_SIZE and MAX_PAGE_SIZE, src/server.py:28-29
DEFAULT_PAGE_SIZE == 50

MAX_PAGE_SIZE == 100

\* the default of a field that has one (Field(None, ...), Field("json", ...))
FieldDefault(name, field) ==
    CASE field = "format" ->
            IF name = "get_timesheet_summary" THEN JStr("markdown") ELSE JStr("json")
      [] field = "page" -> JInt(1)
      [] field = "size" -> JInt(DEFAULT_PAGE_SIZE)
      [] OTHER -> JNull

\* FieldValid checking the type of a value only, not its bounds or pattern
FieldValidTypesOnly(field, value) ==
    CASE field \in {"id", "page", "size"} -> value.t = "int"
      [] field = "format" -> value.t = "str"
      [] field \in {"user", "customer", "project", "activity"} ->
            value.t \in {"int", "null"}
      [] field \in {"active", "exported", "visible", "billable"} ->
            value.t \in {"bool", "null"}
      [] field \in {"begin", "end", "term", "description", "tags", "name", "color",
                    "currency"} -> value.t \in {"str", "null"}

\* the pattern "^#[0-9a-fA-F]{6}$" of the color fields
HexDigits ==
    {"0", "1", "2", "3", "4", "5", "6", "7", "8", "9",
     "a", "b", "c", "d", "e", "f", "A", "B", "C", "D", "E", "F"}

IsColor(str) ==
    /\ Len(str) = 7
    /\ SubSeq(str, 1, 1) = "#"
    /\ \A n \in 2..7 : SubSeq(str, n, n) \in HexDigits

\* a supplied value satisfies the declaration of its field
FieldValid(field, value) ==
    CASE field = "id" -> value.t = "int" /\ value.n > 0
      [] field = "format" -> value.t = "str" /\ value.s \in {"json", "markdown"}
      [] field = "page" -> value.t = "int" /\ value.n >= 1
      [] field = "size" -> value.t = "int" /\ value.n >= 1 /\ value.n <= MAX_PAGE_SIZE
      [] field \in {"user", "customer", "project", "activity"} ->
            value.t \in {"int", "null"}
      [] field \in {"active", "exported", "visible", "billable"} ->
            value.t \in {"bool", "null"}
      [] field \in {"begin", "end", "tags"} -> value.t \in {"str", "null"}
      [] field = "description" ->
            value.t = "null" \/ (value.t = "str" /\ Len(value.s) <= 1000)
      [] field = "name" ->
            value.t = "null"
            \/ (value.t = "str" /\ Len(value.s) >= 1 /\ Len(value.s) <= 150)
      [] field = "currency" -> value.t = "null" \/ (value.t = "str" /\ Len(value.s) = 3)
      [] field = "color" -> value.t = "null" \/ (value.t = "str" /\ IsColor(value.s))
      [] field = "term" -> value.t = "null" \/ (value.t = "str" /\ Len(value.s) <= 200)

\* Model(**arguments): the validated parameters or the exception raised
Validate(name, arguments) ==
    IF arguments.t # "obj"
    THEN Raise("TypeError", <<ModelName(name), "() argument after ** must be a mapping">>)
    ELSE LET fields == ModelFields(name)
             supplied == Range(arguments.k)
             Bad(f) == \/ f = "id" /\ f \notin supplied
                       \/ f \in supplied /\ ~FieldValid(f, arguments.v[f])
             Extra(k) == k \notin Range(fields)
             bad == SelectSeq(fields, Bad) \o SelectSeq(arguments.k, Extra)
         IN IF bad # <<>>
            THEN Raise("ValidationError",
                       <<ToString(Len(bad)), " validation error for ", ModelName(name), "\n">>
                       \o bad)
            ELSE [ok |-> TRUE,
                  params |-> [f \in Range(fields) |->
                                 Get(arguments, f, FieldDefault(name, f))]]

(***************************************************************************)
(* format_timesheet_markdown, src/server.py:679-705.                       *)
(***************************************************************************)
\* sep.join(texts)
RECURSIVE Join(_, _)
Join(texts, sep) ==
    IF texts = <<>> THEN <<>>
    ELSE IF Len(texts) = 1 THEN texts[1]
    ELSE texts[1] \o <<sep>> \o Join(Tail(texts), sep)

FormatTimesheetMarkdown(timesheet) ==
    IF timesheet.t # "obj"
    THEN Raise("AttributeError", <<"object has no attribute 'get'">>)
    ELSE IF DurationOf(timesheet).t # "int"
    THEN Raise("TypeError", <<"unsupported operand type(s) for /">>)
    ELSE LET F(key) == PyStr(Get(timesheet, key, JNull))
             YesNo(key) == IF Truthy(Get(timesheet, key, JNull)) THEN "Yes" ELSE "No"
             tags == Get(timesheet, "tags", JNull)
         IN IF Truthy(tags) /\ (tags.t # "arr" \/ \E i \in 1..Len(tags.a) : tags.a[i].t # "str")
            THEN Raise("TypeError", <<"sequence item 0: expected str instance">>)
            ELSE [ok |-> TRUE,
                  text |->
                    <<"## Timesheet #">> \o F("id")
                    \o <<"\n", "**Status:** ",
                         IF Get(timesheet, "end", JNull) = JNull
                         THEN "<timer>" ELSE "<check>",
                         IF Get(timesheet, "end", JNull) = JNull
                         THEN " RUNNING" ELSE " Completed">>
                    \o <<"\n", "**Project ID:** ">> \o F("project")
                    \o <<"\n", "**Activity ID:** ">> \o F("activity")
                    \o <<"\n", "**Start:** ">> \o F("begin")
                    \o <<"\n", "**End:** ">>
                    \o PyStr(Get(timesheet, "end", JStr("Still running...")))
                    \o <<"\n", "**Duration:** ">>
                    \o Fixed2(Round2(DurationOf(timesheet).n))
                    \o <<" hours (", ToString(DurationOf(timesheet).n), " seconds)">>
                    \o <<"\n", "**Billable:** ", YesNo("billable")>>
                    \o <<"\n", "**Exported:** ", YesNo("exported")>>
                    \o (IF Truthy(Get(timesheet, "description", JNull))
                        THEN <<"\n", "**Description:** ">> \o F("description") ELSE <<>>)
                    \o (IF Truthy(tags)
                        THEN <<"\n", "**Tags:** ">>
                             \o Join([i \in 1..Len(tags.a) |-> <<tags.a[i].s>>], ", ")
                        ELSE <<>>)
                    \o (IF Truthy(Get(timesheet, "rate", JNull))
                        THEN <<"\n", "**Rate:** ">> \o F("rate") ELSE <<>>)]

\* the formatted items of a list, each followed by an empty line; the first item
\* that could not be formatted raises
RECURSIVE FormatEach(_)
FormatEach(formatted) ==
    IF formatted = <<>> THEN Text(<<>>)
    ELSE LET head == formatted[1] IN
         IF ~head.ok THEN head
         ELSE LET rest == FormatEach(Tail(formatted)) IN
              IF ~rest.ok THEN rest
              ELSE Text(<<"\n">> \o head.text \o <<"\n">> \o rest.text)

\* format_timesheets_markdown, src/server.py:708-726
FormatTimesheetsMarkdown(timesheets) ==
    IF ~Truthy(timesheets) THEN Text(<<"No timesheets found.">>)
    ELSE IF ~Iterable(timesheets) THEN Raise("TypeError", <<"object is not iterable">>)
    ELSE LET items == Iterate(timesheets) IN
         IF \E i \in 1..Len(items) : items[i].t # "obj"
         THEN Raise("AttributeError", <<"object has no attribute 'get'">>)
         ELSE IF \E i \in 1..Len(items) : ~Aggregable(items[i])
         THEN Raise("TypeError", <<"unsupported operand type(s) for +">>)
         ELSE LET each == FormatEach([i \in 1..Len(items) |->
                                            FormatTimesheetMarkdown(items[i])]) IN
              IF ~each.ok THEN each
              ELSE Text(TruncateIfNeeded(
                       <<"# Timesheets (", ToString(Len(items)), " entries)", "\n",
                         "**Total Duration:** ">>
                       \o Fixed2(Round2(SumDuration(items, FALSE)))
                       \o <<" hours", "\n">> \o each.text,
                       CHARACTER_LIMIT))

\* format_project_markdown, format_activity_markdown and format_customer_markdown,
\* src/server.py:729-745, 765-781, 801-817: they differ in their third line
FormatItemMarkdown(kind, item) ==
    IF item.t # "obj"
    THEN Raise("AttributeError", <<"object has no attribute 'get'">>)
    ELSE LET F(key) == PyStr(Get(item, key, JNull))
             YesNo(key) == IF Truthy(Get(item, key, JNull)) THEN "Yes" ELSE "No"
         IN Text(<<"## ">> \o F("name") \o <<" (#">> \o F("id") \o <<")">>
                 \o <<"\n", "**Number:** ">> \o F("number")
                 \o (CASE kind = "project" -> <<"\n", "**Customer ID:** ">> \o F("customer")
                       [] kind = "activity" ->
                            <<"\n", "**Project ID:** ">>
                            \o PyStr(Get(item, "project", JStr("Global")))
                       [] kind = "customer" -> <<"\n", "**Currency:** ">> \o F("currency"))
                 \o <<"\n", "**Visible:** ", YesNo("visible")>>
                 \o <<"\n", "**Billable:** ", YesNo("billable")>>
                 \o (IF Truthy(Get(item, "color", JNull))
                     THEN <<"\n", "**Color:** ">> \o F("color") ELSE <<>>)
                 \o (IF Truthy(Get(item, "comment", JNull))
                     THEN <<"\n", "**Comment:** ">> \o F("comment") ELSE <<>>))

\* the plural of a kind, as the list headings spell it
Plural(kind) ==
    CASE kind = "project" -> "projects"
      [] kind = "activity" -> "activities"
      [] kind = "customer" -> "customers"

Title(kind) ==
    CASE kind = "project" -> "Projects"
      [] kind = "activity" -> "Activities"
      [] kind = "customer" -> "Customers"

\* format_projects_markdown, format_activities_markdown and
\* format_customers_markdown, src/server.py:748-762, 784-798, 820-834
FormatItemsMarkdown(kind, items) ==
    IF ~Truthy(items) THEN Text(<<"No ", Plural(kind), " found.">>)
    ELSE IF ~Iterable(items) THEN Raise("TypeError", <<"object is not iterable">>)
    ELSE LET list == Iterate(items)
             each == FormatEach([i \in 1..Len(list) |-> FormatItemMarkdown(kind, list[i])])
         IN IF ~each.ok THEN each
            ELSE Text(TruncateIfNeeded(
                     <<"# ", Title(kind), " (", ToString(Len(list)), " total)", "\n">>
                     \o each.text,
                     CHARACTER_LIMIT))

(***************************************************************************)
(* call_tool, src/server.py:1141-1553: the branches of the dispatcher as   *)
(* the steps between its await points.  A step either returns/raises       *)
(* (next = "return") or awaits one more client.request (next = "request"). *)
(***************************************************************************)
None == JNull

Returns(r) == [r |-> r, next |-> "return"]

Awaits(params, method, endpoint, query, json_data) ==
    [endpoint |-> endpoint, method |-> method, params |-> params,
     json |-> json_data, next |-> "request", query |-> query]

\* datetime.now(timezone.utc).strftime("%Y-%m-%dT%H:%M:%SZ")
Now == JStr("<now>")

\* query_params of get_timesheet_summary, src/server.py:1458-1471
SummaryQuery(params) ==
    LET ints == {f \in {"user", "customer", "project", "activity"} : params[f] # JNull}
        strs == {f \in {"begin", "end"} : Truthy(params[f])}
    IN [f \in {"size"} \cup ints \cup strs |->
            IF f = "size" THEN JInt(1000) ELSE params[f]]

\* BoolParam passing the boolean on as it is
BoolParamAsBool(value) == value

\* "1" if params.active else "0", src/server.py:1163
BoolParam(value) == IF value.b THEN JStr("1") ELSE JStr("0")

\* query_params of the list tools, src/server.py:1150-1169, 1272-1279, 1333-1342,
\* 1397-1402: page and size always, a filter when it was supplied
ListQuery(name, params) ==
    LET fields == Range(ModelFields(name))
        ints == {f \in fields \cap {"user", "customer", "project", "activity"} :
                    params[f] # JNull}
        bools == {f \in fields \cap {"active", "exported", "visible"} : params[f] # JNull}
        strs == {f \in fields \cap {"begin", "end", "term"} : Truthy(params[f])}
    IN [f \in {"page", "size"} \cup ints \cup bools \cup strs |->
            IF f \in bools THEN BoolParam(params[f]) ELSE params[f]]

\* the collection a tool works on, and the kind of its items
Collection(name) ==
    CASE name \in {"list_timesheets", "get_timesheet", "stop_timesheet",
                   "delete_timesheet", "get_timesheet_summary",
                   "update_timesheet"} -> "timesheets"
      [] name \in {"list_projects", "get_project", "update_project"} -> "projects"
      [] name \in {"list_activities", "get_activity", "update_activity"} -> "activities"
      [] name \in {"list_customers", "get_customer", "update_customer"} -> "customers"

Kind(name) ==
    CASE Collection(name) = "timesheets" -> "timesheet"
      [] Collection(name) = "projects" -> "project"
      [] Collection(name) = "activities" -> "activity"
      [] Collection(name) = "customers" -> "customer"

\* f"timesheets/{params.id}", f"projects/{params.id}", ...
ItemPath(collection, params) == <<collection \o "/", ToString(params["id"].n)>>

TimesheetPath(params) == ItemPath("timesheets", params)

\* the tools that change one item of a collection
UpdateTools == {"update_timesheet", "update_project", "update_activity", "update_customer"}

\* the fields an update tool copies `if params.x:`, and those it copies
\* `if params.x is not None:`
CopiedIfTrue(name) ==
    CASE name = "update_timesheet" -> {"begin", "end"}
      [] name \in {"update_project", "update_activity"} -> {"name", "color"}
      [] name = "update_customer" -> {"name", "currency", "color"}

CopiedIfNotNone(name) ==
    IF name = "update_timesheet" THEN {"description", "tags"} ELSE {"visible", "billable"}

\* UpdateData copying every field of the input but the id, None included
UpdateDataEveryField(name, params) ==
    LET NotId(f) == f # "id"
    IN JObj(SelectSeq(ModelFields(name), NotId),
            [f \in Range(ModelFields(name)) \ {"id"} |-> params[f]])

\* `data` of the update tools, src/server.py:1245-1253, 1314-1322, 1378-1386,
\* 1437-1447
UpdateData(name, params) ==
    LET copied == {f \in CopiedIfTrue(name) : Truthy(params[f])}
                  \cup {f \in CopiedIfNotNone(name) : params[f] # JNull}
        Copied(f) == f \in copied
    IN JObj(SelectSeq(ModelFields(name), Copied), [f \in copied |-> params[f]])

\* the word the success text of an update starts with
Singular(kind) ==
    CASE kind = "timesheet" -> "Timesheet"
      [] kind = "project" -> "Project"
      [] kind = "activity" -> "Activity"
      [] kind = "customer" -> "Customer"

\* from the entry of the try block to the first await (or to the return)
Begin(name, arguments) ==
    IF name \notin KnownTools
    THEN Returns(Text(<<"Unknown tool: ", name>>))
    ELSE LET v == Validate(name, arguments) IN
         IF ~v.ok THEN Returns(v)
         ELSE CASE name \in ListTools ->
                     Awaits(v.params, "GET", <<Collection(name)>>,
                            ListQuery(name, v.params), None)
                [] name \in GetTools ->
                     Awaits(v.params, "GET", ItemPath(Collection(name), v.params),
                            None, None)
                [] name = "stop_timesheet" ->
                     Awaits(v.params, "GET", TimesheetPath(v.params), None, None)
                [] name = "delete_timesheet" ->
                     Awaits(v.params, "DELETE", TimesheetPath(v.params), None, None)
                [] name = "get_timesheet_summary" ->
                     Awaits(v.params, "GET", <<"timesheets">>, SummaryQuery(v.params), None)
                [] name \in UpdateTools ->
                     Awaits(v.params, "PATCH", ItemPath(Collection(name), v.params),
                            None, UpdateData(name, v.params))

\* HasEnded taking every timesheet for a running one
HasEndedNever(current) == FALSE

\* current.get("end") is not None, src/server.py:1207
HasEnded(current) == Get(current, "end", JNull) # JNull

\* AfterFetch asking for one more page when the page was not empty
AfterFetchNextPage(params, timesheets) ==
    IF Truthy(timesheets)
    THEN Awaits(params, "GET", <<"timesheets">>, SummaryQuery(params), None)
    ELSE Returns(Summarize(timesheets, params["format"].s))

\* get_timesheet_summary after its fetch, src/server.py:1475-1541: local
\* computation up to the return
AfterFetch(params, timesheets) == Returns(Summarize(timesheets, params["format"].s))

\* from the completion of the step-th client.request to the next await or the return;
\* res is what the request returned or raised
Resume(name, params, step, res) ==
    IF ~res.ok THEN Returns([msg |-> res.msg, ok |-> FALSE, exc |-> res.exc])
    ELSE CASE name \in ListTools ->
                Returns(IF params["format"].s = "markdown"
                        THEN (IF name = "list_timesheets"
                              THEN FormatTimesheetsMarkdown(res.value)
                              ELSE FormatItemsMarkdown(Kind(name), res.value))
                        ELSE Text(TruncateIfNeeded(PyStr(res.value), CHARACTER_LIMIT)))
           [] name \in GetTools ->
                Returns(IF params["format"].s = "markdown"
                        THEN (IF name = "get_timesheet"
                              THEN FormatTimesheetMarkdown(res.value)
                              ELSE FormatItemMarkdown(Kind(name), res.value))
                        ELSE Text(PyStr(res.value)))
           [] name = "delete_timesheet" ->
                Returns(Text(<<"<check>", " Timesheet #", ToString(params["id"].n),
                               " deleted successfully.">>))
           [] name = "stop_timesheet" /\ step = 1 ->
                IF res.value.t # "obj"
                THEN Returns(Raise("AttributeError", <<"object has no attribute 'get'">>))
                ELSE IF HasEnded(res.value)
                THEN Returns(Text(<<"<cross>", " Error: Timesheet #",
                                    ToString(params["id"].n),
                                    " is not running (already has an end time).">>))
                ELSE Awaits(params, "PATCH", TimesheetPath(params), None,
                            JObj(<<"end">>, [end |-> Now]))
           [] name = "stop_timesheet" /\ step = 2 ->
                LET md == FormatTimesheetMarkdown(res.value)
                IN Returns(IF md.ok
                           THEN Text(<<"<check>", " Timesheet stopped successfully!",
                                       "\n", "\n">> \o md.text)
                           ELSE md)
           [] name = "get_timesheet_summary" -> AfterFetch(params, res.value)
           [] name \in UpdateTools ->
                LET md == IF name = "update_timesheet"
                          THEN FormatTimesheetMarkdown(res.value)
                          ELSE FormatItemMarkdown(Kind(name), res.value)
                IN Returns(IF md.ok
                           THEN Text(<<"<check>", " ", Singular(Kind(name)),
                                       " updated successfully!", "\n", "\n">>
                                     \o md.text)
                           ELSE md)

\* a handler that catches ValueError and its subclasses only
CatchesValueError(exc) == exc \in {"ValidationError", "JSONDecodeError"}

\* the classes `except Exception` catches, src/server.py:1549
Catches(exc) ==
    exc \in {"Exception", "ValidationError", "TypeError", "AttributeError",
             "JSONDecodeError", "ZeroDivisionError"}

\* what call_tool hands to its caller: the text it returns, or the exception
\* that leaves it
Outcome(r) ==
    IF r.ok THEN [text |-> r.text, returned |-> TRUE]
    ELSE IF Catches(r.exc) THEN [text |-> <<"Error: ">> \o r.msg, returned |-> TRUE]
    ELSE [exc |-> r.exc, text |-> r.msg, returned |-> FALSE]

(***************************************************************************)
(* The state.                                                              *)
(***************************************************************************)
VARIABLES
    environ,        \* os.environ: the variables that are set, and their values
    kimai_client,   \* the global client instance, None until first use
    pc,             \* per coroutine: "idle", "awaiting" (in client.request), "done"
    call,           \* per coroutine: name, arguments, params, step, client of the call
    wire,           \* per coroutine: for each client.request of the call, in order,
                    \* the HTTP requests it has sent
    replies,        \* per coroutine: what came back for each request, and what
                    \* client.request made of it
    connections,    \* per coroutine: the httpx.AsyncClient contexts that are open,
                    \* each named by the step of the client.request that opened it
    result,         \* per coroutine: what call_tool handed to its caller
    summary         \* per coroutine: the aggregation and the summary it was rendered to

vars == <<environ, kimai_client, pc, call, wire, replies, connections, result, summary>>

Invocations == 1..NumInvocations

\* call_tool handed back an error text, or an exception left it
Failed(i) ==
    /\ pc[i] = "done"
    /\ (~result[i].returned \/ (result[i].text # <<>> /\ result[i].text[1] = "Error: "))

\* get_client reading the environment at every call
GetClientRereading == NewClient(environ)

\* get_client building the client anew once a call has failed
GetClientAfterFailure ==
    IF kimai_client = None \/ (\E j \in Invocations : Failed(j))
    THEN NewClient(environ) ELSE kimai_client

\* get_client building a client for every call that arrives while another call
\* is in flight (the global assigned only after the first request)
GetClientWhenBusy ==
    IF kimai_client = None \/ (\E j \in Invocations : pc[j] = "awaiting")
    THEN NewClient(environ) ELSE kimai_client

\* get_client(), src/server.py:848-857
GetClient == IF kimai_client = None THEN NewClient(environ) ELSE kimai_client

\* the summary the branch computed, kept for the properties
SummaryOf(name, params, res) ==
    IF name = "get_timesheet_summary" /\ res.ok
    THEN LET agg == Aggregate(res.value)
         IN IF agg.ok
            THEN [out |-> Summarize(res.value, params["format"].s), agg |-> agg]
            ELSE None
    ELSE None

\* SendsAgain re-sending the request after a failure
SendsAgainOnFailure(reply) == reply.type = "error" \/ ~IsSuccess(reply.status)

\* whether request sends its HTTP request once more after `reply`: there is no loop
\* around client.request, the success path returns and both handlers raise,
\* src/server.py:628-663
SendsAgain(reply) == FALSE

\* `async with httpx.AsyncClient(timeout=30.0) as client`, entered by the step-th
\* client.request of the call: a context of its own is opened
Enter(open, step) == open \cup {step}

\* Exit releasing the context only when request returns
ExitOnReturnOnly(open, step, res) == IF res.ok THEN open \ {step} ELSE open

\* the end of the `async with` block, left by return or by raise: the context is closed
Exit(open, step, res) == open \ {step}

\* call_tool is entered and runs to its first await, or to its end
CallTool(i, name, arguments) ==
    /\ pc[i] = "idle"
    /\ kimai_client' = GetClient
    /\ LET client == GetClient
           b == Begin(name, arguments)
       IN IF b.next = "return"
          THEN /\ pc' = [pc EXCEPT ![i] = "done"]
               /\ call' = [call EXCEPT ![i] =
                              [name |-> name, params |-> None, arguments |-> arguments,
                               step |-> 0, client |-> client]]
               /\ result' = [result EXCEPT ![i] = Outcome(b.r)]
               /\ UNCHANGED <<wire, connections>>
          ELSE /\ pc' = [pc EXCEPT ![i] = "awaiting"]
               /\ call' = [call EXCEPT ![i] =
                              [name |-> name, params |-> b.params,
                               arguments |-> arguments, step |-> 1, client |-> client]]
               /\ wire' = [wire EXCEPT ![i] =
                              << <<HttpRequest(client, b.method, b.endpoint,
                                               b.query, b.json)>> >>]
               /\ connections' = [connections EXCEPT ![i] = Enter(@, 1)]
               /\ UNCHANGED result
    /\ UNCHANGED <<environ, replies, summary>>

\* the round trip of the pending client.request ends with `reply`; request returns
\* or raises, its connection is released, and call_tool runs to its next await or
\* to its end
Respond(i, reply) ==
    /\ pc[i] = "awaiting"
    /\ LET c == call[i]
           res == Request(c.client, reply)
           k == Resume(c.name, c.params, c.step, res)
       IN /\ replies' = [replies EXCEPT ![i] = Append(@, [reply |-> reply, res |-> res])]
          /\ IF SendsAgain(reply)
             THEN /\ wire' = [wire EXCEPT ![i][c.step] = Append(@, @[Len(@)])]
                  /\ UNCHANGED <<pc, call, result, summary, connections>>
             ELSE IF k.next = "return"
             THEN /\ pc' = [pc EXCEPT ![i] = "done"]
                  /\ result' = [result EXCEPT ![i] = Outcome(k.r)]
                  /\ summary' = [summary EXCEPT ![i] = SummaryOf(c.name, c.params, res)]
                  /\ connections' = [connections EXCEPT ![i] = Exit(@, c.step, res)]
                  /\ UNCHANGED <<call, wire>>
             ELSE /\ call' = [call EXCEPT ![i].step = @ + 1]
                  /\ wire' = [wire EXCEPT ![i] =
                                 Append(@, <<HttpRequest(c.client, k.method, k.endpoint,
                                                         k.query, k.json)>>)]
                  /\ connections' = [connections EXCEPT ![i] =
                                        Enter(Exit(@, c.step, res), c.step + 1)]
                  /\ UNCHANGED <<pc, result, summary>>
    /\ UNCHANGED <<environ, kimai_client>>

\* the caller has taken the result; the coroutine is gone
Finish(i) ==
    /\ pc[i] = "done"
    /\ pc' = [pc EXCEPT ![i] = "idle"]
    /\ call' = [call EXCEPT ![i] = None]
    /\ wire' = [wire EXCEPT ![i] = <<>>]
    /\ replies' = [replies EXCEPT ![i] = <<>>]
    /\ result' = [result EXCEPT ![i] = None]
    /\ summary' = [summary EXCEPT ![i] = None]
    /\ UNCHANGED <<environ, kimai_client, connections>>

\* the environment of the process is changed from outside the server code
SetEnviron(e) ==
    /\ e # environ
    /\ environ' = e
    /\ UNCHANGED <<kimai_client, pc, call, wire, replies, connections, result, summary>>

(***************************************************************************)
(* The inputs the model draws from.                                        *)
(***************************************************************************)
\* a time entry with all four fields the aggregation reads
Entry(duration, billable, project, activity) ==
    JObj(<<"duration", "billable", "project", "activity">>,
         [duration |-> duration, billable |-> billable,
          project |-> project, activity |-> activity])

\* the same entry without the fields named in `absent`
Without(entry, absent) ==
    LET Kept(k) == k \notin absent
    IN JObj(SelectSeq(entry.k, Kept), [k \in Range(entry.k) \ absent |-> entry.v[k]])

\* Time entries: the three of the scenario, entries whose project or activity is
\* null or absent, an entry without `billable` and one without `duration`.
\* Every duration is a multiple of 12 seconds.
Entries ==
    { Entry(JInt(3600), JBool(TRUE), JInt(1), JInt(10)),
      Entry(JInt(1800), JBool(FALSE), JInt(1), JInt(11)),
      Entry(JInt(7200), JBool(TRUE), JInt(2), JInt(10)),
      Entry(JInt(12), JBool(TRUE), JNull, JNull),
      Without(Entry(JInt(12), JBool(FALSE), JNull, JNull), {"project", "activity"}),
      Without(Entry(JInt(3600), JNull, JInt(2), JNull), {"billable", "activity"}),
      Without(Entry(JInt(0), JBool(TRUE), JNull, JInt(11)), {"duration"}) }

\* the lists of entries a page of `timesheets` can hold
EntryLists == UNION {[1..n -> Entries] : n \in 0..MaxEntries}

\* single timesheets as the remote returns them: a running and a completed one
RunningTimesheet ==
    JObj(<<"id", "begin", "end", "duration", "project", "activity", "billable">>,
         [duration |-> JInt(0), billable |-> JBool(TRUE), end |-> JNull,
          project |-> JInt(1), activity |-> JInt(10), id |-> JInt(1),
          begin |-> JStr("2025-11-06T09:00:00")])

CompletedTimesheet ==
    JObj(<<"id", "begin", "end", "duration", "project", "activity", "billable">>,
         [duration |-> JInt(3600), billable |-> JBool(TRUE),
          end |-> JStr("2025-11-06T10:00:00"),
          project |-> JInt(1), activity |-> JInt(10), id |-> JInt(1),
          begin |-> JStr("2025-11-06T09:00:00")])

\* error documents: with a `message`, and without one
NotFoundDocument ==
    JObj(<<"code", "message">>, [code |-> JInt(404), message |-> JStr("Not found")])

NoMessageDocument == JObj(<<"error">>, [error |-> JStr("Invalid token")])

\* s repeated until it is longer than n characters
RECURSIVE Pad(_, _)
Pad(s, n) == IF Len(s) > n THEN s ELSE Pad(s \o s, n)

\* a description longer than the character limit
LongText == Pad("x", CHARACTER_LIMIT)

\* a completed timesheet with that description
LongTimesheet ==
    JObj(<<"id", "end", "duration", "description">>,
         [duration |-> JInt(3600), end |-> JStr("2025-11-06T10:00:00"),
          id |-> JInt(2), description |-> JStr(LongText)])

\* a project, an activity and a customer as the remote returns them
Project ==
    JObj(<<"id", "name", "customer", "visible", "billable", "comment">>,
         [billable |-> JBool(TRUE), name |-> JStr("Website"), id |-> JInt(5),
          customer |-> JInt(1), visible |-> JBool(TRUE), comment |-> JStr(LongText)])

Bodies ==
    { EmptyBody,
      TextBody(<<"<html>Bad Gateway</html>">>),
      JsonBody(NotFoundDocument),
      JsonBody(NoMessageDocument),
      JsonBody(JArr(<<>>)),
      JsonBody(JArr(<<Entry(JInt(3600), JBool(TRUE), JInt(1), JInt(10))>>)),
      JsonBody(RunningTimesheet),
      JsonBody(CompletedTimesheet),
      JsonBody(LongTimesheet),
      JsonBody(JArr(<<CompletedTimesheet, LongTimesheet>>)),
      JsonBody(JArr(<<Project>>)) }

\* success with and without content, a redirect (not followed), client and server errors
Statuses == {200, 204, 302, 404, 500}

\* what a round trip can end with
Replies ==
    {HttpResponse(st, b) : st \in Statuses, b \in Bodies}
    \cup { TransportError("ConnectError", <<"All connection attempts failed">>),
           TransportError("ReadTimeout", <<>>) }

\* the environment of the process: each of the two variables set or not
BaseUrls ==
    { <<"http://kimai.example">>,
      <<"http://kimai.example", "/">>,
      <<"http://kimai.example", "/kimai", "/">> }

Environments ==
    { <<>> }
    \cup { [n \in {"KIMAI_BASE_URL"} |-> u] : u \in BaseUrls }
    \cup { [n \in {"KIMAI_BASE_URL", "KIMAI_API_TOKEN"} |->
               IF n = "KIMAI_BASE_URL" THEN u ELSE <<"secret">>] : u \in BaseUrls }

Args1(k1, v1) == JObj(<<k1>>, [k \in {k1} |-> v1])

Args2(k1, v1, k2, v2) == JObj(<<k1, k2>>, [k \in {k1, k2} |-> IF k = k1 THEN v1 ELSE v2])

NoArgs == JObj(<<>>, <<>>)

ToolNames == KnownTools \cup {"no_such_tool"}

\* the arguments the model calls each tool with: valid ones and rejected ones
ArgumentsOf(name) ==
    CASE name = "get_timesheet" ->
            { Args1("id", JInt(1)), Args2("id", JInt(1), "format", JStr("markdown")),
              Args1("id", JInt(0)), JNull }
      [] name = "list_timesheets" ->
            { NoArgs, Args1("active", JBool(TRUE)), Args1("format", JStr("markdown")),
              Args2("active", JBool(FALSE), "exported", JBool(TRUE)),
              Args1("size", JInt(MAX_PAGE_SIZE + 1)), Args1("active", JStr("maybe")) }
      [] name = "list_projects" ->
            { NoArgs, Args2("visible", JBool(FALSE), "format", JStr("markdown")),
              Args2("visible", JBool(TRUE), "customer", JInt(1)) }
      [] name = "list_activities" ->
            { Args1("visible", JBool(FALSE)), Args2("term", JStr("dev"), "project", JInt(1)),
              Args1("page", JInt(0)) }
      [] name = "list_customers" ->
            { NoArgs, Args1("visible", JBool(TRUE)), Args1("format", JStr("markdown")) }
      [] name \in {"get_project", "get_activity", "get_customer"} ->
            { Args1("id", JInt(5)), Args2("id", JInt(5), "format", JStr("markdown")),
              NoArgs }
      [] name = "stop_timesheet" -> { Args1("id", JInt(1)), NoArgs }
      [] name = "delete_timesheet" ->
            { Args1("id", JInt(1)), Args2("id", JInt(1), "force", JBool(TRUE)) }
      [] name = "get_timesheet_summary" ->
            { NoArgs, Args1("format", JStr("json")), Args1("format", JStr("xml")),
              Args2("format", JStr("json"), "project", JInt(1)) }
      [] name = "update_timesheet" ->
            { Args2("id", JInt(1), "description", JStr("Code review")),
              Args2("id", JInt(1), "description", JStr("")),
              Args2("id", JInt(1), "begin", JStr("")),
              Args2("id", JInt(1), "end", JStr("2025-11-06T17:30:00")),
              Args2("id", JInt(1), "tags", JNull),
              Args1("id", JInt(1)), Args1("tags", JStr("review")) }
      [] name = "update_project" ->
            { Args2("id", JInt(5), "name", JStr("Website")),
              Args2("id", JInt(5), "name", JStr("")),
              Args2("id", JInt(5), "visible", JBool(FALSE)),
              Args2("id", JInt(5), "color", JStr("#ff0000")),
              Args2("id", JInt(5), "color", JStr("red")) }
      [] name = "update_activity" ->
            { Args2("id", JInt(5), "billable", JBool(FALSE)),
              Args2("id", JInt(5), "name", JStr("Development")),
              Args1("id", JInt(5)) }
      [] name = "update_customer" ->
            { Args2("id", JInt(5), "currency", JStr("EUR")),
              Args2("id", JInt(5), "currency", JStr("EURO")),
              Args2("id", JInt(5), "visible", JBool(TRUE)) }
      [] OTHER -> { NoArgs }

(***************************************************************************)
(* The specifications.                                                     *)
(***************************************************************************)
Idle ==
    /\ kimai_client = None
    /\ pc = [i \in Invocations |-> "idle"]
    /\ call = [i \in Invocations |-> None]
    /\ wire = [i \in Invocations |-> <<>>]
    /\ replies = [i \in Invocations |-> <<>>]
    /\ connections = [i \in Invocations |-> {}]
    /\ result = [i \in Invocations |-> None]
    /\ summary = [i \in Invocations |-> None]

Init ==
    /\ environ \in Environments
    /\ Idle

\* tool calls one after the other: any tool, any arguments, any reply
Next ==
    \/ \E name \in ToolNames : \E arguments \in ArgumentsOf(name) :
           CallTool(1, name, arguments)
    \/ \E reply \in Replies : Respond(1, reply)
    \/ Finish(1)

Spec == Init /\ [][Next]_vars

\* the reporting tool against every page of entries
SummaryInit ==
    /\ environ = <<>>
    /\ Idle

SummaryNext ==
    \/ \E arguments \in ArgumentsOf("get_timesheet_summary") :
           CallTool(1, "get_timesheet_summary", arguments)
    \/ \E entries \in EntryLists :
           Respond(1, HttpResponse(200, JsonBody(JArr(entries))))
    \/ Finish(1)

SummarySpec == SummaryInit /\ [][SummaryNext]_vars

\* The process over its life: calls that overlap, switching at their await
\* points, while the environment changes.  A few tools, arguments and replies.
ProcessCalls ==
    { <<"get_timesheet", Args1("id", JInt(1))>>,
      <<"stop_timesheet", Args1("id", JInt(1))>>,
      <<"stop_timesheet", NoArgs>>,
      <<"get_timesheet_summary", Args1("format", JStr("json"))>> }

ProcessReplies ==
    { HttpResponse(200, JsonBody(RunningTimesheet)),
      HttpResponse(200, JsonBody(JArr(<<Entry(JInt(3600), JBool(TRUE), JInt(1), JInt(10))>>))),
      HttpResponse(404, JsonBody(NotFoundDocument)),
      TransportError("ConnectError", <<"All connection attempts failed">>) }

ProcessEnvironments ==
    { <<>>,
      [n \in {"KIMAI_BASE_URL"} |-> <<"http://kimai.example", "/">>],
      [n \in {"KIMAI_BASE_URL", "KIMAI_API_TOKEN"} |->
          IF n = "KIMAI_BASE_URL" THEN <<"http://other.example">> ELSE <<"secret">>] }

ProcessInit ==
    /\ environ \in ProcessEnvironments
    /\ Idle

ProcessNext ==
    \/ \E i \in Invocations : \E c \in ProcessCalls : CallTool(i, c[1], c[2])
    \/ \E i \in Invocations : \E reply \in ProcessReplies : Respond(i, reply)
    \/ \E i \in Invocations : Finish(i)
    \/ \E e \in ProcessEnvironments : SetEnviron(e)

ProcessSpec == ProcessInit /\ [][ProcessNext]_vars

\* stop_timesheet against a remote that keeps its timesheets: every timesheet is
\* running at the start, a GET shows it as it is, a PATCH that is answered with
\* success has set its end time.  A call that is done stays, so that what it did
\* to the remote is known.
StopIds == {1, 2}

StopCalls == {Args1("id", JInt(id)) : id \in StopIds} \cup {NoArgs}

\* coroutine j is a stop_timesheet call for the timesheet `id`
Stops(j, id) ==
    /\ call[j] # None
    /\ call[j].name = "stop_timesheet"
    /\ call[j].params # None
    /\ call[j].params["id"].n = id

\* the PATCH of coroutine j has set the end time of the timesheet `id`
EndSet(j, id) ==
    /\ Stops(j, id)
    /\ Len(replies[j]) = 2
    /\ replies[j][2].reply.type = "response"
    /\ IsSuccess(replies[j][2].reply.status)

Ended(id) == \E j \in Invocations : EndSet(j, id)

Timesheet(id, ended) ==
    LET ts == IF ended THEN CompletedTimesheet ELSE RunningTimesheet
    IN [ts EXCEPT !.v["id"] = JInt(id)]

\* what the remote can answer the pending request of coroutine i with
RemoteAnswers(i) ==
    IF pc[i] # "awaiting" THEN {}
    ELSE LET id == call[i].params["id"].n
             failures == { HttpResponse(404, JsonBody(NotFoundDocument)),
                           TransportError("ConnectError",
                                          <<"All connection attempts failed">>) }
         IN IF call[i].step = 1
            THEN {HttpResponse(200, JsonBody(Timesheet(id, Ended(id))))} \cup failures
            ELSE {HttpResponse(200, JsonBody(Timesheet(id, TRUE)))} \cup failures

StopInit ==
    /\ environ \in ProcessEnvironments
    /\ Idle

StopNext ==
    \/ \E i \in Invocations : \E arguments \in StopCalls :
           CallTool(i, "stop_timesheet", arguments)
    \/ \E i \in Invocations : \E reply \in RemoteAnswers(i) : Respond(i, reply)

StopSpec == StopInit /\ [][StopNext]_vars

(***************************************************************************)
(* Properties of the summary (checked under SummarySpec).                  *)
(***************************************************************************)
\* the sum of the second components of a set of pairs
RECURSIVE SetSum(_)
SetSum(S) ==
    IF S = {} THEN 0
    ELSE LET x == CHOOSE y \in S : TRUE IN x[2] + SetSum(S \ {x})

\* the entries the summary call of coroutine i fetched
Fetched(i) == replies[i][1].reply.body.value.a

\* the reference reading of an entry: its duration (0 when absent), whether it
\* is billable, its key in a grouping (null when absent)
RefDuration(e) == IF "duration" \in Range(e.k) THEN e.v["duration"].n ELSE 0

RefBillable(e) == "billable" \in Range(e.k) /\ e.v["billable"] = JBool(TRUE)

RefKey(e, field) == IF field \in Range(e.k) THEN e.v[field] ELSE JNull

\* the summed duration of the entries of `items` at the positions J
RefSeconds(items, J) == SetSum({<<j, RefDuration(items[j])>> : j \in J})

GroupSeconds(mapping) == SetSum({<<g, mapping[g].duration>> : g \in 1..Len(mapping)})

GroupCounts(mapping) == SetSum({<<g, mapping[g].count>> : g \in 1..Len(mapping)})

\* C1: in every summary, for by_project and for by_activity, the seconds of the
\* groups add up to total_seconds (the sum of the durations of all entries) and
\* the counts of the groups add up to total_entries (the number of entries).
C1_GroupsAddUpToTotals ==
    \A i \in Invocations :
        summary[i] # None =>
            LET agg == summary[i].agg
                items == Fetched(i)
            IN /\ agg.total_duration = RefSeconds(items, 1..Len(items))
               /\ agg.entries = Len(items)
               /\ summary[i].out.ok
               /\ summary[i].out.total_entries = Len(items)
               /\ GroupSeconds(agg.by_project) = agg.total_duration
               /\ GroupCounts(agg.by_project) = agg.entries
               /\ GroupSeconds(agg.by_activity) = agg.total_duration
               /\ GroupCounts(agg.by_activity) = agg.entries

\* a summary of three entries falling into several project and activity groups
C1_Witness ==
    \E i \in Invocations :
        /\ summary[i] # None
        /\ summary[i].agg.entries = 3
        /\ summary[i].agg.total_duration > 0
        /\ Len(summary[i].agg.by_project) >= 2
        /\ Len(summary[i].agg.by_activity) >= 2

Abs(x) == IF x < 0 THEN -x ELSE x

\* C2 as stated: the billable_hours and non_billable_hours the summary carries
\* add up to the total_hours it carries.
C2_CarriedHoursAddUp ==
    \A i \in Invocations :
        (summary[i] # None /\ summary[i].out.ok) =>
            summary[i].out.billable_hours + summary[i].out.non_billable_hours
                = summary[i].out.total_hours

\* C2, amended: non_billable_hours is the difference total - billable (never a
\* sum of its own), so the unrounded quantities add up exactly; the carried
\* values are each rounded to 2 decimals and add up to total_hours within 0.01.
C2_CarriedHoursAddUpWithinRounding ==
    \A i \in Invocations :
        (summary[i] # None /\ summary[i].out.ok) =>
            LET agg == summary[i].agg
                out == summary[i].out
                items == Fetched(i)
            IN /\ agg.billable_duration + agg.non_billable_duration
                      = RefSeconds(items, 1..Len(items))
               /\ out.non_billable_hours
                      = Round2(RefSeconds(items, 1..Len(items)) - agg.billable_duration)
               /\ Abs(out.billable_hours + out.non_billable_hours - out.total_hours) <= 1

\* a summary with billable and non-billable time whose carried hours do not add up
C2_Witness ==
    \E i \in Invocations :
        /\ summary[i] # None
        /\ summary[i].out.ok
        /\ summary[i].agg.billable_duration > 0
        /\ summary[i].agg.non_billable_duration > 0
        /\ summary[i].out.billable_hours + summary[i].out.non_billable_hours
               # summary[i].out.total_hours

\* the call of coroutine i is a finished get_timesheet_summary whose fetch
\* returned the list `items`
SummaryDone(i, items) ==
    /\ pc[i] = "done"
    /\ call[i].name = "get_timesheet_summary"
    /\ Len(replies[i]) = 1
    /\ replies[i][1].reply = HttpResponse(200, JsonBody(JArr(items)))

\* C3: on an empty list the summary is produced (no division by zero, in either
\* format) with total_entries 0, every hour field 0 and, where percentages are
\* rendered, both percentages 0.
C3_EmptyListGivesZeros ==
    \A i \in Invocations :
        SummaryDone(i, <<>>) =>
            /\ result[i].returned
            /\ ~StartsWith(result[i].text, <<"Error: ">>)
            /\ summary[i] # None
            /\ summary[i].out.ok
            /\ result[i].text = summary[i].out.text
            /\ summary[i].out.total_entries = 0
            /\ summary[i].out.total_hours = 0
            /\ summary[i].out.billable_hours = 0
            /\ summary[i].out.non_billable_hours = 0
            /\ summary[i].out.by_project = <<>>
            /\ summary[i].out.by_activity = <<>>
            /\ (call[i].params["format"].s = "markdown" =>
                    /\ summary[i].out.billable_percent = 0
                    /\ summary[i].out.non_billable_percent = 0
                    /\ Contains(result[i].text,
                                <<"**Billable Time:** ", "0", ".", "0", "0",
                                  " hours (", "0", ".", "0", "%)">>))

\* the markdown report of an empty list has been rendered
C3_Witness ==
    \E i \in Invocations :
        /\ SummaryDone(i, <<>>)
        /\ call[i].params["format"].s = "markdown"
        /\ result[i].returned

\* the positions of `items` whose `field` is null or absent
Missing(items, field) == {j \in 1..Len(items) : RefKey(items[j], field) = JNull}

\* the groups of `mapping` that stand for "no project" / "no activity"
NoneGroups(mapping) == {g \in 1..Len(mapping) : mapping[g].key = JNull}

NoneGroupHolds(items, field, mapping) ==
    Missing(items, field) # {} =>
        /\ Cardinality(NoneGroups(mapping)) = 1
        /\ \A g \in NoneGroups(mapping) :
               /\ mapping[g].count = Cardinality(Missing(items, field))
               /\ mapping[g].duration = RefSeconds(items, Missing(items, field))
        /\ Len(mapping)
               = Cardinality({RefKey(items[j], field) : j \in 1..Len(items)})

\* C4: the entries whose project (activity) is null or absent are all in one
\* group of by_project (by_activity), however many they are; its count and
\* seconds are those of these entries, and it is the only group that is not
\* the group of an identifier.
C4_MissingKeysShareOneGroup ==
    \A i \in Invocations :
        summary[i] # None =>
            /\ NoneGroupHolds(Fetched(i), "project", summary[i].agg.by_project)
            /\ NoneGroupHolds(Fetched(i), "activity", summary[i].agg.by_activity)

\* a summary over an entry whose project is null, one whose project is absent,
\* and one with a project
C4_Witness ==
    \E i \in Invocations :
        /\ summary[i] # None
        /\ \E j \in 1..Len(Fetched(i)) :
               "project" \in Range(Fetched(i)[j].k) /\ Fetched(i)[j].v["project"] = JNull
        /\ \E j \in 1..Len(Fetched(i)) : "project" \notin Range(Fetched(i)[j].k)
        /\ \E j \in 1..Len(Fetched(i)) : RefKey(Fetched(i)[j], "project") # JNull
        /\ Cardinality(NoneGroups(summary[i].agg.by_project)) = 1

\* the positions of `items` whose key in the grouping by `field` is `key`
Keyed(items, field, key) == {j \in 1..Len(items) : RefKey(items[j], field) = key}

\* `mapping` is the reference grouping of `items` by `field`: one group per key
\* that occurs, holding the summed duration and the number of its entries
IsReferenceGrouping(items, field, mapping) ==
    /\ {mapping[g].key : g \in 1..Len(mapping)}
           = {RefKey(items[j], field) : j \in 1..Len(items)}
    /\ \A g, h \in 1..Len(mapping) : mapping[g].key = mapping[h].key => g = h
    /\ \A g \in 1..Len(mapping) :
           /\ mapping[g].duration = RefSeconds(items, Keyed(items, field, mapping[g].key))
           /\ mapping[g].count = Cardinality(Keyed(items, field, mapping[g].key))

\* the three entries of the scenario of the specification
Scenario ==
    << Entry(JInt(3600), JBool(TRUE), JInt(1), JInt(10)),
       Entry(JInt(1800), JBool(FALSE), JInt(1), JInt(11)),
       Entry(JInt(7200), JBool(TRUE), JInt(2), JInt(10)) >>

\* what the JSON summary carries for the scenario, hours in hundredths, with
\* the given billable and non-billable hours
ScenarioCarried(out, billable, non_billable) ==
    /\ out.ok
    /\ out.total_entries = 3
    /\ out.total_hours = 350
    /\ out.billable_hours = billable
    /\ out.non_billable_hours = non_billable
    /\ out.format = "json" =>
          /\ out.by_project = << [key |-> <<"1">>, count |-> 2, hours |-> 150],
                                 [key |-> <<"2">>, count |-> 1, hours |-> 200] >>
          /\ out.by_activity = << [key |-> <<"10">>, count |-> 2, hours |-> 300],
                                  [key |-> <<"11">>, count |-> 1, hours |-> 50] >>

\* every summary is the reference reduction of the fetched entries: total
\* seconds are the sum of the durations, billable seconds the sum over the
\* entries with billable true, every group holds the sum and the number of the
\* entries with its key
IsReferenceReduction(i) ==
    LET agg == summary[i].agg
        items == Fetched(i)
    IN /\ agg.total_duration = RefSeconds(items, 1..Len(items))
       /\ agg.billable_duration
              = RefSeconds(items, {j \in 1..Len(items) : RefBillable(items[j])})
       /\ IsReferenceGrouping(items, "project", agg.by_project)
       /\ IsReferenceGrouping(items, "activity", agg.by_activity)
       /\ summary[i].out.ok
       /\ summary[i].out.total_hours = Round2(agg.total_duration)
       /\ summary[i].out.billable_hours = Round2(agg.billable_duration)

\* C5 as stated: the summary is the reference reduction, and the scenario of
\* three entries yields 3.5 h in total, 2.5 h billable, 1.0 h non-billable,
\* projects {1: 1.5 h / 2, 2: 2.0 h / 1}, activities {10: 3.0 h / 2, 11: 0.5 h / 1}.
C5_ScenarioAsStated ==
    \A i \in Invocations :
        /\ summary[i] # None => IsReferenceReduction(i)
        /\ SummaryDone(i, Scenario) =>
              (summary[i] # None /\ ScenarioCarried(summary[i].out, 250, 100))

\* C5, amended: the summary is the reference reduction, and the scenario of
\* three entries yields 3.5 h in total, 3.0 h billable (3600 s + 7200 s),
\* 0.5 h non-billable, projects {1: 1.5 h / 2, 2: 2.0 h / 1}, activities
\* {10: 3.0 h / 2, 11: 0.5 h / 1}.
C5_SummaryIsReferenceReduction ==
    \A i \in Invocations :
        /\ summary[i] # None => IsReferenceReduction(i)
        /\ SummaryDone(i, Scenario) =>
              /\ summary[i] # None
              /\ result[i].returned
              /\ result[i].text = summary[i].out.text
              /\ ScenarioCarried(summary[i].out, 300, 50)

\* the JSON summary of the scenario has been produced
C5_Witness ==
    \E i \in Invocations :
        /\ SummaryDone(i, Scenario)
        /\ call[i].params["format"].s = "json"
        /\ summary[i] # None
        /\ summary[i].out.by_project[1].hours = 150
        /\ summary[i].out.billable_hours = 300

(***************************************************************************)
(* Properties of the client and of the dispatcher (checked under Spec).    *)
(***************************************************************************)
\* the completed requests of all coroutines: <<coroutine, position>>
Completed == UNION {{<<i, k>> : k \in 1..Len(replies[i])} : i \in Invocations}

ReplyOf(x) == replies[x[1]][x[2]].reply

ResultOf(x) == replies[x[1]][x[2]].res

StatusFailure(reply) == reply.type = "response" /\ ~IsSuccess(reply.status)

\* the arguments of the call do not pass the validation of the tool's input model
InputRejected(i) ==
    call[i].name \in KnownTools /\ ~Validate(call[i].name, call[i].arguments).ok

\* the last request of the call ended in a non-2xx status or a transport error
RemoteFailed(i) ==
    /\ replies[i] # <<>>
    /\ LET reply == replies[i][Len(replies[i])].reply
       IN reply.type = "error" \/ StatusFailure(reply)

\* C6: whatever the tool name, the arguments and the replies, call_tool returns
\* a text and lets no exception out; when the input was rejected, the remote
\* answered with a failure status or the network failed, the text starts with
\* "Error: ".
C6_FailuresBecomeErrorTexts ==
    \A i \in Invocations :
        pc[i] = "done" =>
            /\ result[i].returned
            /\ (InputRejected(i) \/ RemoteFailed(i)) =>
                   StartsWith(result[i].text, <<"Error: ">>)

\* a call that ended on a 404 of the remote and returned an error text
C6_Witness ==
    \E i \in Invocations :
        /\ pc[i] = "done"
        /\ RemoteFailed(i)
        /\ replies[i][Len(replies[i])].reply.type = "response"
        /\ replies[i][Len(replies[i])].reply.status = 404
        /\ StartsWith(result[i].text, <<"Error: ", "KIMAI API error (">>)

\* the body is a JSON object with a `message` field
HasMessage(body) ==
    /\ body.kind = "json"
    /\ body.value.t = "obj"
    /\ "message" \in Range(body.value.k)

RemediationHint == <<"Please check your request parameters and try again.">>

\* C7: on a non-2xx status request raises, and its message contains the status
\* code, contains the `message` of a JSON body that has one, and ends with the
\* hint to check the request parameters.
C7_StatusFailureMessage ==
    \A x \in Completed :
        StatusFailure(ReplyOf(x)) =>
            /\ ~ResultOf(x).ok
            /\ ResultOf(x).exc = "Exception"
            /\ Contains(ResultOf(x).msg, <<ToString(ReplyOf(x).status)>>)
            /\ HasMessage(ReplyOf(x).body) =>
                   Contains(ResultOf(x).msg, PyStr(ReplyOf(x).body.value.v["message"]))
            /\ EndsWith(ResultOf(x).msg, RemediationHint)

\* HTTP 404 with the body {"code":404,"message":"Not found"}
C7_Witness ==
    \E x \in Completed :
        /\ ReplyOf(x) = HttpResponse(404, JsonBody(NotFoundDocument))
        /\ Contains(ResultOf(x).msg, <<"404">>)
        /\ Contains(ResultOf(x).msg, <<"Not found">>)

\* the detail of a status failure message: what stands between
\* "KIMAI API error (<status>): " and ". Please check ..."
DetailOf(msg) == SubSeq(msg, 4, Len(msg) - 2)

\* C8 as stated: on a non-2xx status whose body is not JSON with a `message`
\* field, the detail is the raw response text.
C8_DetailIsRawText ==
    \A x \in Completed :
        (StatusFailure(ReplyOf(x)) /\ ~HasMessage(ReplyOf(x).body)) =>
            /\ ~ResultOf(x).ok
            /\ DetailOf(ResultOf(x).msg) = ResponseText(ReplyOf(x).body)

\* C8, amended: the detail is the raw response text when the body is not JSON
\* or is JSON that is not an object; for a JSON object without `message` it is
\* str() of the parsed object.
C8_DetailIsRawTextOrStr ==
    \A x \in Completed :
        (StatusFailure(ReplyOf(x)) /\ ~HasMessage(ReplyOf(x).body)) =>
            /\ ~ResultOf(x).ok
            /\ DetailOf(ResultOf(x).msg) =
                   IF ReplyOf(x).body.kind = "json" /\ ReplyOf(x).body.value.t = "obj"
                   THEN PyRepr(ReplyOf(x).body.value)
                   ELSE ResponseText(ReplyOf(x).body)

\* a status failure whose body is a JSON object without `message`: the detail
\* is not the text that was received
C8_Witness ==
    \E x \in Completed :
        /\ StatusFailure(ReplyOf(x))
        /\ ReplyOf(x).body = JsonBody(NoMessageDocument)
        /\ DetailOf(ResultOf(x).msg) = PyRepr(NoMessageDocument)
        /\ DetailOf(ResultOf(x).msg) # ResponseText(ReplyOf(x).body)

\* the base URL the process is configured with
ConfiguredBaseUrl == EnvGet(environ, "KIMAI_BASE_URL", <<"http://localhost:8001">>)

NetworkFailure(x) ==
    /\ ~ResultOf(x).ok
    /\ ResultOf(x).exc = "Exception"
    /\ StartsWith(ResultOf(x).msg, <<"Network error connecting to KIMAI: ">>)
    /\ Contains(ResultOf(x).msg, ReplyOf(x).desc)

\* C9 as stated: when the server cannot be reached or the request times out,
\* request raises with a network message that contains the description of the
\* transport error and the configured base URL.
C9_MessageHasConfiguredUrl ==
    \A x \in Completed :
        ReplyOf(x).type = "error" =>
            /\ NetworkFailure(x)
            /\ Contains(ResultOf(x).msg, ConfiguredBaseUrl)

\* C9, amended: the message contains the description of the transport error
\* and the configured base URL without its trailing slashes.
C9_MessageHasStrippedUrl ==
    \A x \in Completed :
        ReplyOf(x).type = "error" =>
            /\ NetworkFailure(x)
            /\ Contains(ResultOf(x).msg,
                        <<"Please verify the KIMAI instance URL (">>
                        \o RStrip(ConfiguredBaseUrl)
                        \o <<") is correct and accessible.">>)

\* a connection failure of a process configured with a URL that ends in "/"
C9_Witness ==
    \E x \in Completed :
        /\ ReplyOf(x).type = "error"
        /\ ReplyOf(x).desc # <<>>
        /\ ConfiguredBaseUrl # RStrip(ConfiguredBaseUrl)
        /\ Contains(ResultOf(x).msg, RStrip(ConfiguredBaseUrl))

\* C10: a success status with status 204 or with an empty body makes request
\* return {"success": True} without calling response.json(); nothing is raised.
C10_NoContentGivesSuccessMarker ==
    \A x \in Completed :
        (/\ ReplyOf(x).type = "response"
         /\ IsSuccess(ReplyOf(x).status)
         /\ (ReplyOf(x).status = 204 \/ ReplyOf(x).body = EmptyBody)) =>
            /\ ResultOf(x).ok
            /\ ResultOf(x).value = SuccessMarker
            /\ ~ResultOf(x).parsed

\* status 200 with an empty body has been answered with the marker
C10_Witness ==
    \E x \in Completed :
        /\ ReplyOf(x) = HttpResponse(200, EmptyBody)
        /\ ResultOf(x).ok
        /\ ResultOf(x).value = SuccessMarker

\* the normalized failure: an Exception whose message is the remote-status text
\* or the network text
NormalizedFailure(res) ==
    /\ res.exc = "Exception"
    /\ \/ StartsWith(res.msg, <<"KIMAI API error (">>)
       \/ StartsWith(res.msg, <<"Network error connecting to KIMAI: ">>)

\* C11: whenever request fails, what it raises is the normalized failure; no
\* other exception leaves request, also not when a success status comes with a
\* body that is not JSON.
C11_EveryFailureIsNormalized ==
    \A x \in Completed : ~ResultOf(x).ok => NormalizedFailure(ResultOf(x))

\* C12: every invocation of client.request puts exactly one HTTP request on the
\* wire, whatever the reply: after a failure status or a transport error nothing
\* is sent again, after a success nothing further is sent; every reply answers a
\* request of its own.
C12_OneHttpRequestPerRequest ==
    \A i \in Invocations :
        /\ \A k \in 1..Len(wire[i]) : Len(wire[i][k]) = 1
        /\ Len(replies[i]) = Len(wire[i]) - (IF pc[i] = "awaiting" THEN 1 ELSE 0)

\* a call whose only request failed (status or transport) and was sent once
C12_Witness ==
    \E i \in Invocations :
        /\ pc[i] = "done"
        /\ RemoteFailed(i)
        /\ Len(replies[i]) = 1
        /\ Len(wire[i]) = 1
        /\ Len(wire[i][1]) = 1

\* the HTTP requests a call has sent so far, in order
Sent(i) == [k \in 1..Len(wire[i]) |-> wire[i][k][1]]

\* the call passed the validation of its tool and reached the network
Dispatched(i) == call[i] # None /\ call[i].name \in KnownTools /\ ~InputRejected(i)

\* C13 as stated: no call sends more than one request, and a dispatched
\* get_timesheet_summary sends exactly one, the fetch of `timesheets`.
C13_AtMostOneRequestPerCall ==
    \A i \in Invocations :
        /\ Len(wire[i]) <= 1
        /\ (Dispatched(i) /\ call[i].name = "get_timesheet_summary") =>
               /\ Len(wire[i]) = 1
               /\ Sent(i)[1].method = "GET"
               /\ EndsWith(Sent(i)[1].url, <<"/api/", "timesheets">>)

\* C13, amended: every tool but stop_timesheet sends at most one request per
\* call; stop_timesheet sends a GET and then at most one PATCH, the PATCH only
\* after the GET returned a timesheet without end time; a dispatched
\* get_timesheet_summary sends exactly one request, the fetch of `timesheets`.
C13_RequestsPerCall ==
    \A i \in Invocations :
        call[i] # None =>
            /\ call[i].name # "stop_timesheet" => Len(wire[i]) <= 1
            /\ call[i].name = "stop_timesheet" =>
                   /\ Len(wire[i]) <= 2
                   /\ Len(wire[i]) = 2 =>
                          /\ Sent(i)[1].method = "GET"
                          /\ Sent(i)[2].method = "PATCH"
                          /\ replies[i][1].res.ok
                          /\ Get(replies[i][1].res.value, "end", JNull) = JNull
            /\ (Dispatched(i) /\ call[i].name = "get_timesheet_summary") =>
                   /\ Len(wire[i]) = 1
                   /\ Sent(i)[1].method = "GET"
                   /\ EndsWith(Sent(i)[1].url, <<"/api/", "timesheets">>)

\* a stop_timesheet that is over after two requests, its GET and its PATCH
C13_Witness ==
    \E i \in Invocations :
        /\ pc[i] = "done"
        /\ call[i].name = "stop_timesheet"
        /\ Len(wire[i]) = 2
        /\ Len(replies[i]) = 2

\* the words pydantic reads as a boolean
BoolWords == {"0", "1", "true", "false", "t", "f", "yes", "no", "y", "n", "on", "off"}

\* arguments the input model of the tool cannot accept: not a mapping, a field
\* the model does not declare, no `id` where one is required, a number outside
\* its bounds, a format other than json or markdown, a word that is no boolean
BadArguments(name, arguments) ==
    /\ name \in KnownTools
    /\ \/ arguments.t # "obj"
       \/ "id" \in Range(ModelFields(name)) /\ "id" \notin Range(arguments.k)
       \/ \E k \in Range(arguments.k) :
             LET v == arguments.v[k] IN
             \/ k \notin Range(ModelFields(name))
             \/ k = "id" /\ v.t = "int" /\ v.n <= 0
             \/ k = "page" /\ v.t = "int" /\ v.n < 1
             \/ k = "size" /\ v.t = "int" /\ (v.n < 1 \/ v.n > 100)
             \/ k = "format" /\ v.t = "str" /\ v.s \notin {"json", "markdown"}
             \/ k \in {"active", "exported", "visible"}
                  /\ v.t = "str" /\ v.s \notin BoolWords

\* C14: a call whose arguments fail the validation of the tool's input model
\* sends no HTTP request at all and returns a text that starts with "Error: ".
C14_RejectedBeforeAnyRequest ==
    \A i \in Invocations :
        (call[i] # None /\ BadArguments(call[i].name, call[i].arguments)) =>
            /\ wire[i] = <<>>
            /\ replies[i] = <<>>
            /\ connections[i] = {}
            /\ pc[i] = "done"
            /\ result[i].returned
            /\ StartsWith(result[i].text, <<"Error: ">>)

\* list_timesheets with size 101 was rejected without a request
C14_Witness ==
    \E i \in Invocations :
        /\ pc[i] = "done"
        /\ call[i].name = "list_timesheets"
        /\ call[i].arguments = Args1("size", JInt(101))
        /\ wire[i] = <<>>
        /\ StartsWith(result[i].text, <<"Error: ", "1", " validation error for ">>)

(***************************************************************************)
(* Properties of the process over its life (checked under ProcessSpec).    *)
(***************************************************************************)
\* the configuration the environment holds now
EnvBaseUrl == EnvGet(environ, "KIMAI_BASE_URL", <<"http://localhost:8001">>)

EnvToken == EnvGet(environ, "KIMAI_API_TOKEN", <<>>)

\* C15: the client is built by the first get_client call, from the environment
\* of that moment; from then on the global holds the same client with the same
\* base URL and token whatever happens to the environment, and every call
\* works with that client.
C15_ClientConfiguredOnce ==
    [][ /\ kimai_client # None => kimai_client' = kimai_client
        /\ (kimai_client = None /\ kimai_client' # None) =>
               /\ kimai_client'.base_url = RStrip(EnvBaseUrl)
               /\ kimai_client'.headers.Authorization = <<"Bearer ">> \o EnvToken
        /\ \A i \in Invocations :
               call'[i] # None => call'[i].client = kimai_client' ]_vars

\* the environment has changed since the client was built, and a call that is
\* in flight sends to the base URL of the client, not of the environment
C15_Witness ==
    /\ kimai_client # None
    /\ kimai_client.base_url # RStrip(EnvBaseUrl)
    /\ \E i \in Invocations :
          /\ pc[i] = "awaiting"
          /\ call[i].client = kimai_client
          /\ StartsWith(Sent(i)[1].url, <<kimai_client.base_url[1]>>)
          /\ ~StartsWith(Sent(i)[1].url, <<EnvBaseUrl[1]>>)

\* One call running alone with `client` against the replies `answers`: the
\* requests it sends and, when the replies suffice, what it hands back.
RECURSIVE Continue(_, _, _, _, _, _, _)
Continue(client, name, params, step, k, answers, requests) ==
    LET sent == Append(requests,
                       HttpRequest(client, k.method, k.endpoint, k.query, k.json))
    IN IF answers = <<>> THEN [requests |-> sent, outcome |-> None]
       ELSE LET next == Resume(name, params, step, Request(client, answers[1]))
            IN IF next.next = "return"
               THEN [requests |-> sent, outcome |-> Outcome(next.r)]
               ELSE Continue(client, name, params, step + 1, next, Tail(answers), sent)

Alone(client, name, arguments, answers) ==
    LET b == Begin(name, arguments)
    IN IF b.next = "return" THEN [requests |-> <<>>, outcome |-> Outcome(b.r)]
       ELSE Continue(client, name, b.params, 1, b, answers, <<>>)

\* the replies a call has received so far
Answers(i) == [k \in 1..Len(replies[i]) |-> replies[i][k].reply]

\* C16: once a call has failed, the process is as it was but for the client,
\* which stays the one the failed call worked with: any other call sends the
\* requests and hands back the result it would alone, with that client.
C16_FailureLeavesNoTrace ==
    \A i, j \in Invocations :
        (i # j /\ Failed(i) /\ call[j] # None) =>
            LET alone == Alone(call[i].client, call[j].name, call[j].arguments, Answers(j))
            IN /\ kimai_client = call[i].client
               /\ Sent(j) = alone.requests
               /\ pc[j] = "done" => result[j] = alone.outcome

\* next to a call that failed on the remote, another call went through and
\* handed back a text that is no error
C16_Witness ==
    \E i, j \in Invocations :
        /\ i # j
        /\ Failed(i)
        /\ RemoteFailed(i)
        /\ pc[j] = "done"
        /\ ~Failed(j)
        /\ Len(Sent(j)) >= 1

\* the clients in use: the module's and the one each call obtained
Clients ==
    {call[i].client : i \in {j \in Invocations : call[j] # None}}
        \cup ({kimai_client} \ {None})

\* C17: however the calls interleave at their awaits, there is at most one
\* client, every call works with it, and every call sends what it would send
\* and hands back what it would hand back alone against the same replies.
C17_ConcurrentCallsIndependent ==
    /\ Cardinality(Clients) <= 1
    /\ \A i \in Invocations :
          call[i] # None =>
              LET alone == Alone(kimai_client, call[i].name, call[i].arguments, Answers(i))
              IN /\ Sent(i) = alone.requests
                 /\ pc[i] = "done" => result[i] = alone.outcome

\* two calls are awaiting at once, one of them already past its first reply,
\* and the environment is no longer the one the client was built from
C17_Witness ==
    \E i, j \in Invocations :
        /\ i # j
        /\ pc[i] = "awaiting"
        /\ pc[j] = "awaiting"
        /\ Len(replies[i]) >= 1
        /\ kimai_client.base_url # RStrip(EnvBaseUrl)

(***************************************************************************)
(* Properties of the connections and of the texts (checked under Spec).    *)
(***************************************************************************)
\* C18: the only connection context a call has open is the one of the
\* client.request it is awaiting; once the request has returned or raised,
\* and between calls, none is open.
C18_ConnectionScopedToRequest ==
    \A i \in Invocations :
        connections[i] = IF pc[i] = "awaiting" THEN {call[i].step} ELSE {}

\* a call has ended on a client.request that raised
C18_Witness ==
    \E i \in Invocations :
        /\ pc[i] = "done"
        /\ replies[i] # <<>>
        /\ ~replies[i][Len(replies[i])].res.ok
        /\ connections[i] = {}

\* the text handed back is the cut form of a longer one: a listing in JSON
\* whose rendering exceeds the limit
Shortened(i) ==
    /\ call[i].name \in ListTools
    /\ ~InputRejected(i)
    /\ call[i].params["format"].s = "json"
    /\ replies[i] # <<>>
    /\ LET res == replies[i][Len(replies[i])].res
       IN res.ok /\ Chars(PyStr(res.value)) > CHARACTER_LIMIT

\* C19: no text a tool hands back is longer than CHARACTER_LIMIT characters,
\* and a text that was shortened ends with the truncation marker.
C19_EveryResultCapped ==
    \A i \in Invocations :
        pc[i] = "done" =>
            /\ Chars(result[i].text) <= CHARACTER_LIMIT
            /\ Shortened(i) =>
                   EndsWith(result[i].text, TruncationMarker(CHARACTER_LIMIT))

BoolFilters == {"active", "exported", "visible"}

\* C20: in the request of a listing tool every boolean filter that was supplied
\* is the string "1" (for true) or "0" (for false), no query parameter is a
\* boolean, and a filter that was not supplied is not in the query.
C20_BoolFiltersAsDigits ==
    \A i \in Invocations :
        (call[i] # None /\ call[i].name \in ListTools /\ wire[i] # <<>>) =>
            LET query == Sent(i)[1].params
                args == call[i].arguments
            IN /\ \A f \in DOMAIN query : query[f].t # "bool"
               /\ \A f \in BoolFilters :
                     IF f \in Range(args.k) /\ args.v[f].t = "bool"
                     THEN /\ f \in DOMAIN query
                          /\ query[f] = JStr(IF args.v[f].b THEN "1" ELSE "0")
                     ELSE f \notin DOMAIN query

\* list_timesheets has sent its request with active false and exported true
C20_Witness ==
    \E i \in Invocations :
        /\ pc[i] = "awaiting"
        /\ call[i].name = "list_timesheets"
        /\ call[i].arguments = Args2("active", JBool(FALSE), "exported", JBool(TRUE))
        /\ Sent(i)[1].params["active"] = JStr("0")
        /\ Sent(i)[1].params["exported"] = JStr("1")

(***************************************************************************)
(* Properties of the requests sent (checked under Spec).                   *)
(***************************************************************************)
\* C21: the URL of the request a call sends first is the base URL of the
\* client, then "/api/", then the path of the tool, also when the base URL has
\* a path of its own.
C21_UrlIsBaseApiPath ==
    \A i \in Invocations :
        (call[i] # None /\ wire[i] # <<>>) =>
            Sent(i)[1].url =
                call[i].client.base_url \o <<"/api/">>
                    \o Begin(call[i].name, call[i].arguments).endpoint

(***************************************************************************)
(* Properties of the order of the summary (checked under SummarySpec).     *)
(***************************************************************************)
\* the position in `items` of the first entry whose key is `key`
FirstSeen(items, field, key) ==
    CHOOSE j \in Keyed(items, field, key) : \A k \in Keyed(items, field, key) : j <= k

\* `listed` holds every group of `items` once, a group of more seconds before
\* one of fewer, and of two groups of equal seconds the one met first before
ListedDescendingStable(items, field, listed) ==
    /\ IsReferenceGrouping(items, field, listed)
    /\ \A a, b \in 1..Len(listed) :
          a < b =>
              \/ listed[a].duration > listed[b].duration
              \/ /\ listed[a].duration = listed[b].duration
                 /\ FirstSeen(items, field, listed[a].key)
                        < FirstSeen(items, field, listed[b].key)

\* C22: the markdown summary lists the project groups and the activity groups
\* by descending seconds, groups of equal seconds in the order in which their
\* keys were first met in the entry list.
C22_GroupsListedDescendingStable ==
    \A i \in Invocations :
        (summary[i] # None /\ summary[i].out.ok /\ summary[i].out.format = "markdown") =>
            LET out == summary[i].out
                items == Fetched(i)
            IN /\ ListedDescendingStable(items, "project", out.by_project)
               /\ ListedDescendingStable(items, "activity", out.by_activity)
               /\ Contains(result[i].text,
                           <<"## By Project">> \o GroupLines("Project", out.by_project))
               /\ EndsWith(result[i].text,
                           <<"## By Activity">> \o GroupLines("Activity", out.by_activity))

\* a markdown summary of three project groups: the two listed first have equal
\* seconds, and the listing is not the order in which the groups were met
C22_Witness ==
    \E i \in Invocations :
        /\ summary[i] # None
        /\ summary[i].out.ok
        /\ summary[i].out.format = "markdown"
        /\ Len(summary[i].out.by_project) = 3
        /\ summary[i].out.by_project[1].duration = summary[i].out.by_project[2].duration
        /\ summary[i].out.by_project # summary[i].agg.by_project

\* the entry lists that hold the entries of `items` in another order
Reorderings(items) ==
    {[j \in 1..Len(items) |-> items[p[j]]] : p \in Permutations(1..Len(items))}

\* the quantities of a Summary Result: the number of entries, the total, the
\* billable and the non-billable seconds, and the groups with their seconds
\* and counts, whatever the order they are held in
Quantities(agg) ==
    <<agg.entries, agg.total_duration, agg.billable_duration,
      agg.non_billable_duration, Range(agg.by_project), Range(agg.by_activity)>>

\* what a rendered summary carries of them
Carried(out) ==
    <<out.total_entries, out.total_hours, out.billable_hours,
      out.non_billable_hours, Range(out.by_project), Range(out.by_activity)>>

\* C23: the entries fetched, taken in any other order, give a summary of the
\* same quantities: the same totals and, for every project and activity, the
\* same seconds and count.
C23_OrderOfEntriesIrrelevant ==
    \A i \in Invocations :
        summary[i] # None =>
            \A items \in Reorderings(Fetched(i)) :
                LET agg == Aggregate(JArr(items))
                    out == Summarize(JArr(items), summary[i].out.format)
                IN /\ agg.ok
                   /\ Quantities(agg) = Quantities(summary[i].agg)
                   /\ out.ok
                   /\ Carried(out) = Carried(summary[i].out)

\* a summary of three entries, two of them of one project with different
\* durations, which in another order are grouped in another order
C23_Witness ==
    \E i \in Invocations :
        /\ summary[i] # None
        /\ summary[i].agg.entries = 3
        /\ \E g \in 1..Len(summary[i].agg.by_project) :
              /\ summary[i].agg.by_project[g].count = 2
              /\ summary[i].agg.by_project[g].duration = 5400
        /\ \E items \in Reorderings(Fetched(i)) :
              Aggregate(JArr(items)).by_project # summary[i].agg.by_project

(***************************************************************************)
(* Properties of the summary over incomplete entries (SummarySpec).        *)
(***************************************************************************)
Lacks(e, field) == field \notin Range(e.k)

\* the summed duration of the entries at the positions J that have one
SecondsPresent(items, J) ==
    SetSum({<<j, items[j].v["duration"].n>> : j \in {k \in J : ~Lacks(items[k], "duration")}})

\* C24: when entries of the fetched list have no duration or no billable, the
\* summary is still produced and no error text returned: an entry without
\* duration adds 0 seconds and is counted in its groups, an entry without
\* billable adds to the non-billable seconds and not to the billable ones.
C24_AbsentFieldsDefaulted ==
    \A i \in Invocations :
        (pc[i] = "done" /\ replies[i] # <<>>) =>
            LET items == Fetched(i)
                all == 1..Len(items)
                billable == {j \in all : ~Lacks(items[j], "billable")
                                           /\ items[j].v["billable"] = JBool(TRUE)}
            IN (\E j \in all : Lacks(items[j], "duration") \/ Lacks(items[j], "billable")) =>
                   /\ summary[i] # None
                   /\ result[i].returned
                   /\ result[i].text = summary[i].out.text
                   /\ ~StartsWith(result[i].text, <<"Error: ">>)
                   /\ summary[i].agg.total_duration = SecondsPresent(items, all)
                   /\ summary[i].agg.billable_duration = SecondsPresent(items, billable)
                   /\ summary[i].agg.non_billable_duration
                          = SecondsPresent(items, all \ billable)
                   /\ \A g \in 1..Len(summary[i].agg.by_project) :
                          LET group == summary[i].agg.by_project[g]
                              J == Keyed(items, "project", group.key)
                          IN group.count = Cardinality(J)
                             /\ group.duration = SecondsPresent(items, J)
                   /\ \A g \in 1..Len(summary[i].agg.by_activity) :
                          LET group == summary[i].agg.by_activity[g]
                              J == Keyed(items, "activity", group.key)
                          IN group.count = Cardinality(J)
                             /\ group.duration = SecondsPresent(items, J)

\* a summary over an entry without duration, an entry without billable and a
\* complete one: the entry without duration is counted in its activity group
C24_Witness ==
    \E i \in Invocations :
        /\ pc[i] = "done"
        /\ summary[i] # None
        /\ Len(Fetched(i)) = 3
        /\ \E j \in 1..3 : Lacks(Fetched(i)[j], "duration")
        /\ \E j \in 1..3 : Lacks(Fetched(i)[j], "billable")
        /\ \E j \in 1..3 : ~Lacks(Fetched(i)[j], "duration") /\ ~Lacks(Fetched(i)[j], "billable")
        /\ summary[i].agg.total_duration > summary[i].agg.billable_duration
        /\ \E g \in 1..Len(summary[i].agg.by_activity) :
              /\ summary[i].agg.by_activity[g].key = JInt(11)
              /\ summary[i].agg.by_activity[g].count >= 1

(***************************************************************************)
(* Properties of stop_timesheet (checked under Spec).                      *)
(***************************************************************************)
\* what the GET of a stop_timesheet call came back with
Current(i) == replies[i][1].res

ShowsRunning(res) ==
    res.ok /\ res.value.t = "obj" /\ Get(res.value, "end", JNull) = JNull

ShowsEnded(res) ==
    res.ok /\ res.value.t = "obj" /\ Get(res.value, "end", JNull) # JNull

\* C25: a stop_timesheet call first sends a GET of the timesheet; a PATCH is
\* its second request, goes to the same timesheet and is sent only when the
\* GET came back with a timesheet without end time.  When the GET showed an end
\* time nothing more is sent and the text says the timesheet is not running;
\* when the GET failed nothing more is sent and the text starts with "Error: ".
C25_PatchOnlyAfterRunningGet ==
    \A i \in Invocations :
        (call[i] # None /\ call[i].name = "stop_timesheet" /\ wire[i] # <<>>) =>
            LET sent == Sent(i)
            IN /\ sent[1].method = "GET"
               /\ \A k \in 2..Len(sent) :
                     /\ k = 2
                     /\ sent[k].method = "PATCH"
                     /\ sent[k].url = sent[1].url
                     /\ ShowsRunning(Current(i))
               /\ (replies[i] # <<>> /\ ShowsRunning(Current(i))) => Len(sent) = 2
               /\ (replies[i] # <<>> /\ ShowsEnded(Current(i))) =>
                     /\ Len(sent) = 1
                     /\ pc[i] = "done"
                     /\ result[i].returned
                     /\ EndsWith(result[i].text,
                                 <<" is not running (already has an end time).">>)
               /\ (replies[i] # <<>> /\ ~Current(i).ok) =>
                     /\ Len(sent) = 1
                     /\ pc[i] = "done"
                     /\ result[i].returned
                     /\ StartsWith(result[i].text, <<"Error: ">>)

\* the GET showed a running timesheet and the PATCH with the end time is out
C25_Witness ==
    \E i \in Invocations :
        /\ pc[i] = "awaiting"
        /\ call[i].name = "stop_timesheet"
        /\ Len(replies[i]) = 1
        /\ ShowsRunning(Current(i))
        /\ Len(Sent(i)) = 2
        /\ Sent(i)[2].method = "PATCH"
        /\ Sent(i)[2].json = JObj(<<"end">>, [end |-> Now])

(***************************************************************************)
(* Properties of stop_timesheet against the remote (checked under StopSpec).*)
(***************************************************************************)
\* C26: the end time of a timesheet is set by at most one stop_timesheet call,
\* also when several calls for the same timesheet are in progress together.
C26_EndSetAtMostOnce ==
    \A id \in StopIds : Cardinality({j \in Invocations : EndSet(j, id)}) <= 1

(***************************************************************************)
(* Properties of the update tools (checked under Spec).                    *)
(***************************************************************************)
\* the fields of the body of the PATCH an update call has sent
InBody(i) == Range(Sent(i)[1].json.k)

Updating(i) == call[i] # None /\ call[i].name \in UpdateTools /\ wire[i] # <<>>

\* a field the arguments hold with a value (null stands for no value)
Supplied(i, f) ==
    f \in Range(call[i].arguments.k) /\ call[i].arguments.v[f] # JNull

\* C27: the body of the PATCH of an update tool holds a field exactly when
\* the caller supplied it, with the value supplied, and never the id.
C27_BodyIsWhatWasSupplied ==
    \A i \in Invocations :
        Updating(i) =>
            /\ Sent(i)[1].method = "PATCH"
            /\ "id" \notin InBody(i)
            /\ \A f \in Range(ModelFields(call[i].name)) \ {"id"} :
                  /\ f \in InBody(i) <=> Supplied(i, f)
                  /\ f \in InBody(i) => Sent(i)[1].json.v[f] = call[i].arguments.v[f]

\* C27, amended: the body holds a field exactly when the caller supplied it
\* and, for begin and end, not as the empty string; it holds it with the value
\* supplied, and it never holds the id.
C27_BodyIsWhatWasSuppliedNonEmpty ==
    \A i \in Invocations :
        Updating(i) =>
            /\ Sent(i)[1].method = "PATCH"
            /\ "id" \notin InBody(i)
            /\ \A f \in Range(ModelFields(call[i].name)) \ {"id"} :
                  LET args == call[i].arguments
                      given == /\ Supplied(i, f)
                               /\ ~(f \in {"begin", "end"} /\ args.v[f] = JStr(""))
                  IN /\ f \in InBody(i) <=> given
                     /\ f \in InBody(i) => Sent(i)[1].json.v[f] = args.v[f]

\* update_timesheet called with an empty begin has sent a PATCH with an empty body
C27_Witness ==
    \E i \in Invocations :
        /\ pc[i] = "awaiting"
        /\ call[i].name = "update_timesheet"
        /\ call[i].arguments = Args2("id", JInt(1), "begin", JStr(""))
        /\ Sent(i)[1].method = "PATCH"
        /\ InBody(i) = {}

====
